---- MODULE Spec2Model ----
(***************************************************************************)
(* The deployment orchestrator of next-live: the in-memory admission queue *)
(* (deploymentQueue / deploymentWorker / enqueueDeployment), the           *)
(* processDeployment state machine that drives one Deployment row through  *)
(* clone, build, extract, start, URL minting and proxy configuration, and  *)
(* the Deployment table it writes.                                         *)
(*                                                                         *)
(* JavaScript runs one callback at a time: every action below is the code  *)
(* between two suspension points (an await, or the start of a scheduled    *)
(* callback).                                                              *)
(***************************************************************************)
EXTENDS Integers, Sequences, FiniteSets, TLC

(* ------------------------------ bounds --------------------------------- *)

\* Deployment rows the facade creates in a run of the model.
MaxDeployments == 2

\* Calls of enqueueDeployment in a run of the model.
MaxEnqueues == 2

\* The admission ceilings explored: MAX_CONCURRENT_DEPLOYMENTS..MaxCeiling.
MaxCeiling == 2

\* Distinct values of the 5-character random suffix Math.random() can yield.
MaxRand == 1

\* Repository shapes deployed in a run of the model: the first MaxShapes
\* Dockerfile sources of PlanOrder are the ones buildProjectImage resolves with.
MaxShapes == 2

\* Ports of the range the model lets be probed (the scan is ascending, so only
\* the lowest ports of the range are ever handed out).
MaxPorts == 1

\* Calls of enqueueDeployment in a run of MintSpec, where no external call fails.
MaxMintEnqueues == 3

\* Width of the port ranges findFreePort is given in PortSpec: startPort and
\* endPort lie within MaxScan ports of DEPLOYMENT_PORT_RANGE_START.
MaxScan == 3

\* Length of the longest project name given to the minting block in NameSpec.
MaxNameLength == 3

\* Length of the longest stdout and of the longest stderr of a failed docker
\* build in FailureSpec.
MaxOutput == 3

\* The length an errorMessage is held to in FailureSpec: the fixed maximum the
\* stored message is said to be truncated to.
MaxStoredLength == 4

(* ------------------------- program constants --------------------------- *)

MAX_CONCURRENT_DEPLOYMENTS == 1

MAX_URL_GENERATION_ATTEMPTS == 5

DEPLOYMENT_PORT_RANGE_START == 4001

DEPLOYMENT_PORT_RANGE_END == 4999

\* The default of sanitizeForSubdomain's maxLength.
SUBDOMAIN_MAX_LENGTH == 20

DeploymentIds == 1..MaxDeployments

\* The tasks of a run, numbered in the order of the enqueueDeployment calls.
TaskIds ==
    1..(IF MaxMintEnqueues > MaxEnqueues THEN MaxMintEnqueues ELSE MaxEnqueues)

Ceilings == MAX_CONCURRENT_DEPLOYMENTS..MaxCeiling

RandomStrings == 1..MaxRand

\* The ports of [START, END] that the model probes.
PortRange ==
    { p \in DEPLOYMENT_PORT_RANGE_START..DEPLOYMENT_PORT_RANGE_END :
        p < DEPLOYMENT_PORT_RANGE_START + MaxPorts }

\* DockerfileSource, and the values buildProjectImage resolves with.
DockerfileSources ==
    {"user", "user_classic_assumed", "default_standalone", "default_classic", "unknown"}

PlanOrder ==
    << "default_standalone", "default_classic", "user_classic_assumed", "user" >>

BuildResults ==
    { PlanOrder[i] : i \in { j \in 1..Len(PlanOrder) : j <= MaxShapes } }

(* ------------------------------ values --------------------------------- *)

\* deploymentUrl values.  '' is the value the row is created with;
\* https://<name>-<rand>.<platform>, https://deploy-<id>.<platform> and
\* http://localhost:<port> are distinct strings for distinct arguments.
EmptyUrl == [kind |-> "empty", n |-> 0]

GeneratedUrl(r) == [kind |-> "generated", n |-> r]

FallbackUrl(d) == [kind |-> "fallback", n |-> d]

LocalhostUrl(p) == [kind |-> "localhost", n |-> p]

\* path.join(deploymentWorkingDir, `deployment-${deploymentId}.log`): one path
\* per deployment id; 0 stands for a column that was never written.
LogFilePathOf(d) == d

\* path.join(deploymentWorkingDir, 'build-output').
BuildOutputPathOf(d) == d

\* A row of the Deployment table as deployProject creates it.
NewRow ==
    [ status |-> "pending", logFilePath |-> 0, deploymentUrl |-> EmptyUrl,
      internalPort |-> 0, buildOutputPath |-> 0, dockerfileUsed |-> "null",
      errorMessage |-> "" ]

AbsentRow == [NewRow EXCEPT !.status = "absent"]

\* The locals of one call of processDeployment; starts counts its calls of
\* pm2.start, startOutcome is what the last one answered, imageBuilds counts
\* the docker builds it spawned, proxyCommands lists the privileged commands
\* its call of the proxy configurator issued, logStream whether that call has
\* its log stream, and errorLogged tells whether the phase that threw wrote
\* the error to the log file under a Failed marker.
NewTask ==
    [ dep |-> 0, pc |-> "unused", dockerfileUsedResult |-> "unknown",
      internalPort |-> 0, finalDeploymentUrl |-> EmptyUrl, attempt |-> 0,
      clonedRepoPath |-> FALSE, error |-> "", rerun |-> FALSE,
      starts |-> 0, startOutcome |-> "none", imageBuilds |-> 0,
      proxyCommands |-> << >>, logStream |-> FALSE, errorLogged |-> FALSE ]

\* A call of findFreePort that has not been made.
IdleScan ==
    [ startPort |-> 0, endPort |-> 0, busy |-> {}, port |-> 0, probes |-> 0,
      result |-> "idle", returned |-> 0 ]

\* A run of the URL minting block that has not been made.
IdleNaming ==
    [ dep |-> 0, name |-> << >>, stage |-> "idle", base |-> << >>,
      attempt |-> 0, url |-> EmptyUrl ]

\* A call of buildProjectImage that has not been made.
IdlePlan ==
    [ stage |-> "idle", repo |-> << >>, error |-> "", dockerfilePathToUse |-> "",
      dockerfileSource |-> "unknown", spawned |-> FALSE, buildType |-> "none" ]

\* A docker build that has not failed.
IdleFailure ==
    [ stage |-> "idle", stdoutBuffer |-> << >>, stderrBuffer |-> << >>,
      message |-> << >>, errorMessage |-> << >> ]

\* A call of extractBuildArtifacts that has not been made.
IdleExtraction ==
    [ stage |-> "idle", mkdir |-> "none", spawn |-> "none", sentinel |-> FALSE,
      code |-> "none", warned |-> FALSE, settled |-> "pending", settlements |-> 0 ]

\* A port probe that has not been made.
IdleProbe ==
    [ port |-> 0, answer |-> "none", bind |-> "idle", closing |-> FALSE,
      closeListener |-> FALSE, callback |-> FALSE, timeout |-> "none",
      isPortFree |-> "pending", resolves |-> << >>, loop |-> "idle" ]

\* A call of sanitizeForSubdomain that has not been made.
IdleSanitizing ==
    [ stage |-> "idle", str |-> << >>, maxLength |-> 0, result |-> << >> ]

VARIABLES
    maxConcurrent,       \* the admission ceiling of this process
    isProduction,        \* !!process.env.YOUR_PLATFORM_URL
    rows,                \* the Deployment table
    deploymentQueue,     \* tasks waiting, oldest first
    runningDeployments,  \* the worker's counter
    immediates,          \* setImmediate(deploymentWorker) callbacks not yet run
    tasks,               \* every task ever enqueued, with its locals
    enqueued,            \* number of enqueueDeployment calls so far
    startOrder,          \* tasks in the order the worker started them
    pm2,                 \* supervisor list: the PORTs of the processes named deploy-<id>
    listening,           \* deployments whose supervised app is bound to its PORT
    stateErrors,         \* rows whose terminal-status write was lost (FATAL log)
    logFiles,            \* deployments whose log file exists at logFilePath
    cleanups,            \* per deployment, the detached removals not yet finished
    proxyConfigs,        \* the deploy-<id>.conf files written to sites-available
    sitesEnabled,        \* deployments whose deploy-<id>.conf is linked in sites-enabled
    clones,              \* the directories that hold a cloned repository
    scan,                \* one call of findFreePort, probe by probe
    naming,              \* one run of the URL minting block, the project name explicit
    plan,                \* one call of buildProjectImage up to its docker build
    failure,             \* one failed docker build, from its output to the row
    extraction,          \* one call of extractBuildArtifacts, event by event
    probe,               \* one port probe of findFreePort, callback by callback
    sanitizing           \* one call of sanitizeForSubdomain, maxLength explicit

vars ==
    << maxConcurrent, isProduction, rows, deploymentQueue, runningDeployments,
       immediates, tasks, enqueued, startOrder, pm2, listening, stateErrors,
       logFiles, cleanups, proxyConfigs, sitesEnabled, clones, scan, naming,
       plan, failure, extraction, probe, sanitizing >>

config == << maxConcurrent, isProduction >>

environment == << pm2, listening >>

\* The functions studied event by event.
studies == << extraction, probe, sanitizing >>

\* The functions studied on their own besides the port scan.
calls == << naming, plan, failure, studies >>

\* What the orchestrator leaves on disk, and the functions studied on their own.
files == << logFiles, cleanups, proxyConfigs, sitesEnabled, clones, scan, calls >>

\* The orchestrator after module initialisation.
OrchestratorInit ==
    /\ maxConcurrent \in Ceilings
    /\ isProduction \in BOOLEAN
    /\ rows = [d \in DeploymentIds |-> AbsentRow]
    /\ deploymentQueue = << >>
    /\ runningDeployments = 0
    /\ immediates = 0
    /\ tasks = [t \in TaskIds |-> NewTask]
    /\ enqueued = 0
    /\ startOrder = << >>
    /\ pm2 = [d \in DeploymentIds |-> << >>]
    /\ listening = {}
    /\ stateErrors = {}
    /\ logFiles = {}
    /\ cleanups = [d \in DeploymentIds |-> {}]
    /\ proxyConfigs = {}
    /\ sitesEnabled = {}
    /\ clones = {}

\* None of the functions studied on their own has been called.
IdleStudies ==
    /\ extraction = IdleExtraction
    /\ probe = IdleProbe
    /\ sanitizing = IdleSanitizing

IdleCalls ==
    /\ naming = IdleNaming
    /\ plan = IdlePlan
    /\ failure = IdleFailure
    /\ IdleStudies

Init == OrchestratorInit /\ scan = IdleScan /\ IdleCalls

(* ----------------------- the Dockerfile selection ---------------------- *)

\* How a next.config file can spell its output option: not at all, as
\* output: <value>, or with a space before the colon (the same JavaScript).
OutputKeys == {"none", "output:", "output :"}

\* "standalone" in double quotes, in single quotes and in backticks.
QuotedStandalone == {"dq:standalone", "sq:standalone", "bq:standalone"}

\* The values given to the output option: standalone in one of its quotings,
\* or 'export'.
OutputValues == QuotedStandalone \cup {"sq:export"}

\* The text of a next.config file, as far as the planner looks at it: how the
\* output option is spelled, the value it is given, and whether a quoted
\* standalone occurs anywhere else in the file (a comment, another option).
ConfigContents ==
    { c \in [key : OutputKeys, value : OutputValues \cup {"none"}, mention : BOOLEAN] :
        (c.key = "none") = (c.value = "none") }

UnreadableConfig == [key |-> "unreadable", value |-> "none", mention |-> FALSE]

NoConfig == [key |-> "absent", value |-> "none", mention |-> FALSE]

\* A cloned repository and the server's dockerfiles directory: whether
\* <repo>/Dockerfile exists, which next.config file is found first and what
\* reading it gives, what package.json holds, and which default Dockerfiles
\* are on disk.
Repos ==
    { r \in [ dockerfile : BOOLEAN,
              nextConfig : {"none", "js", "mjs", "ts"},
              configContent : ConfigContents \cup {UnreadableConfig, NoConfig},
              packageJson : {"absent", "invalid", "other", "dependencies",
                             "devDependencies"},
              standaloneDefault : BOOLEAN,
              classicDefault : BOOLEAN ] :
        (r.nextConfig = "none") = (r.configContent = NoConfig) }

\* Next.js Project Detection: a next.config.js, .mjs or .ts file, and without
\* one a package.json that parses and lists next.
isNextProject(r) ==
    \/ r.nextConfig # "none"
    \/ r.packageJson \in {"dependencies", "devDependencies"}

\* configContent.toLowerCase().includes('output:') && (configContent.includes(
\* '"standalone"') || ... ), false when there is no file or readFile threw.
includesStandaloneOutput(c) ==
    /\ c.key = "output:"
    /\ (c.value \in QuotedStandalone \/ c.mention)

\* The configuration declares standalone output: output: is followed by a
\* quoted standalone.
DeclaresStandalone(c) ==
    /\ c.key = "output:"
    /\ c.value \in QuotedStandalone

StandaloneMissingMessage ==
    "Default Next.js standalone Dockerfile is missing on the server"

ClassicMissingMessage ==
    "Default Next.js classic Dockerfile is missing on the server"

NoDockerfileMessage ==
    "No Dockerfile found in the repository root, and it could not be identified as a Next.js project for default Dockerfile selection."

\* Dockerfile Selection Logic: the Dockerfile to build with and its source, or
\* the message of the configuration error thrown.
SelectDockerfile(r) ==
    IF r.dockerfile
    THEN [ error |-> "", dockerfilePathToUse |-> "userDockerfilePath",
           dockerfileSource |->
               IF isNextProject(r) /\ ~includesStandaloneOutput(r.configContent)
               THEN "user_classic_assumed" ELSE "user" ]
    ELSE IF ~isNextProject(r)
    THEN [ error |-> NoDockerfileMessage, dockerfilePathToUse |-> "",
           dockerfileSource |-> "unknown" ]
    ELSE IF includesStandaloneOutput(r.configContent)
    THEN IF r.standaloneDefault
         THEN [ error |-> "",
                dockerfilePathToUse |-> "DEFAULT_STANDALONE_DOCKERFILE_PATH",
                dockerfileSource |-> "default_standalone" ]
         ELSE [ error |-> StandaloneMissingMessage, dockerfilePathToUse |-> "",
                dockerfileSource |-> "unknown" ]
    ELSE IF r.classicDefault
         THEN [ error |-> "",
                dockerfilePathToUse |-> "DEFAULT_CLASSIC_DOCKERFILE_PATH",
                dockerfileSource |-> "default_classic" ]
         ELSE [ error |-> ClassicMissingMessage, dockerfilePathToUse |-> "",
                dockerfileSource |-> "unknown" ]

\* The messages of the configuration errors the selection can throw.
PlanErrors == { SelectDockerfile(r).error : r \in Repos } \ {""}

(* --------------------------- the facade -------------------------------- *)

\* deployProject, step 2: prisma.deployment.create with status pending and
\* deploymentUrl ''.  Ids are handed out in ascending order.
CreateDeployment(d) ==
    /\ rows[d].status = "absent"
    /\ \A e \in DeploymentIds : e < d => rows[e].status # "absent"
    /\ rows' = [rows EXCEPT ![d] = NewRow]
    /\ UNCHANGED << config, deploymentQueue, runningDeployments, immediates,
                    tasks, enqueued, startOrder, environment, stateErrors, files >>

(* ------------------------ the admission queue -------------------------- *)

\* A worker loop that starts the oldest task without looking at the counter.
WorkerLoopNoCeiling(queue, running, tsk, order) ==
    IF Len(queue) > 0
    THEN [ queue   |-> Tail(queue),
           running |-> running + 1,
           tasks   |-> [tsk EXCEPT ![Head(queue)].pc = "markDeploying"],
           order   |-> Append(order, Head(queue)) ]
    ELSE [ queue |-> queue, running |-> running, tasks |-> tsk, order |-> order ]

\* A worker loop that takes the newest task (pop() instead of shift()).
WorkerLoopLifo(queue, running, tsk, order) ==
    IF Len(queue) > 0 /\ running < maxConcurrent
    THEN [ queue   |-> SubSeq(queue, 1, Len(queue) - 1),
           running |-> running + 1,
           tasks   |-> [tsk EXCEPT ![queue[Len(queue)]].pc = "markDeploying"],
           order   |-> Append(order, queue[Len(queue)]) ]
    ELSE [ queue |-> queue, running |-> running, tasks |-> tsk, order |-> order ]

\* A worker loop that shifts the oldest task before it looks at the counter.
WorkerLoopShiftsFirst(queue, running, tsk, order) ==
    IF Len(queue) > 0
    THEN IF running < maxConcurrent
         THEN [ queue   |-> Tail(queue),
                running |-> running + 1,
                tasks   |-> [tsk EXCEPT ![Head(queue)].pc = "markDeploying"],
                order   |-> Append(order, Head(queue)) ]
         ELSE [ queue |-> Tail(queue), running |-> running, tasks |-> tsk,
                order |-> order ]
    ELSE [ queue |-> queue, running |-> running, tasks |-> tsk, order |-> order ]

\* The head of deploymentWorker's loop: with a task waiting and a free slot,
\* shift() the oldest task, count it and call it (processDeployment runs up to
\* its first await, the write of status deploying); otherwise the loop ends.
\* The result is the queue, the counter, the tasks and the start order after it.
WorkerLoop(queue, running, tsk, order) ==
    IF Len(queue) > 0 /\ running < maxConcurrent
    THEN [ queue   |-> Tail(queue),
           running |-> running + 1,
           tasks   |-> [tsk EXCEPT ![Head(queue)].pc = "markDeploying"],
           order   |-> Append(order, Head(queue)) ]
    ELSE [ queue |-> queue, running |-> running, tasks |-> tsk, order |-> order ]

\* An enqueue that runs the worker loop inside the call.
EnqueueRunsInline(d, limit) ==
    /\ enqueued < limit
    /\ rows[d].status # "absent"
    /\ enqueued' = enqueued + 1
    /\ LET w == WorkerLoop(Append(deploymentQueue, enqueued + 1), runningDeployments,
                           [tasks EXCEPT ![enqueued + 1] =
                               [NewTask EXCEPT !.dep = d, !.pc = "queued",
                                   !.rerun = rows[d].status \in {"success", "failed"}]],
                           startOrder)
       IN  /\ deploymentQueue' = w.queue
           /\ runningDeployments' = w.running
           /\ tasks' = w.tasks
           /\ startOrder' = w.order
    /\ UNCHANGED << config, rows, immediates, environment, stateErrors, files >>

\* enqueueDeployment(task), the task being () => processDeployment({deploymentId: d});
\* limit bounds the number of calls in a run.
Enqueue(d, limit) ==
    /\ enqueued < limit
    /\ rows[d].status # "absent"
    /\ enqueued' = enqueued + 1
    /\ tasks' = [tasks EXCEPT ![enqueued + 1] =
                    [NewTask EXCEPT !.dep = d, !.pc = "queued",
                                    !.rerun = rows[d].status \in {"success", "failed"}]]
    /\ deploymentQueue' = Append(deploymentQueue, enqueued + 1)
    /\ immediates' = IF runningDeployments < maxConcurrent
                     THEN immediates + 1 ELSE immediates
    /\ UNCHANGED << config, rows, runningDeployments, startOrder, environment,
                    stateErrors, files >>

EnqueueDeployment(d) == Enqueue(d, MaxEnqueues)

\* A scheduled deploymentWorker callback runs.
DeploymentWorker ==
    /\ immediates > 0
    /\ immediates' = immediates - 1
    /\ LET w == WorkerLoop(deploymentQueue, runningDeployments, tasks, startOrder)
       IN  /\ deploymentQueue' = w.queue
           /\ runningDeployments' = w.running
           /\ tasks' = w.tasks
           /\ startOrder' = w.order
    /\ UNCHANGED << config, rows, enqueued, environment, stateErrors, files >>

\* A finally block that schedules the next worker but forgets to release the slot.
TaskSettlesKeepsSlot(t, tsk) ==
    /\ immediates' = immediates + 1
    /\ LET w == WorkerLoop(deploymentQueue, runningDeployments,
                           [tsk EXCEPT ![t] = [NewTask EXCEPT !.dep = tsk[t].dep, !.pc = "done",
                                                            !.rerun = tsk[t].rerun]],
                           startOrder)
       IN  /\ deploymentQueue' = w.queue
           /\ runningDeployments' = w.running
           /\ tasks' = w.tasks
           /\ startOrder' = w.order
    /\ UNCHANGED << config, enqueued >>

\* The task's promise settles: the worker's finally block releases the slot and
\* schedules a further worker, then the while loop of the same invocation goes on.
\* tsk is the task table as the settling task leaves it.
TaskSettles(t, tsk) ==
    /\ immediates' = immediates + 1
    /\ LET w == WorkerLoop(deploymentQueue, runningDeployments - 1,
                           [tsk EXCEPT ![t] = [NewTask EXCEPT !.dep = tsk[t].dep, !.pc = "done",
                                                            !.rerun = tsk[t].rerun]],
                           startOrder)
       IN  /\ deploymentQueue' = w.queue
           /\ runningDeployments' = w.running
           /\ tasks' = w.tasks
           /\ startOrder' = w.order
    /\ UNCHANGED << config, enqueued >>

(* --------------------------- processDeployment -------------------------- *)

\* An exception inside the try block: control passes to the catch block, which
\* captures error.message and issues the write of status failed.
Throw(t, message) ==
    [tasks EXCEPT ![t].pc = "markFailed", ![t].error = message]

\* An exception of a phase that has written, before it throws, the error to
\* its log stream in a section it closes with a "... Failed" marker.
ThrowLogged(t, message) ==
    [tasks EXCEPT ![t].pc = "markFailed", ![t].error = message,
                  ![t].errorLogged = TRUE]

Goto(t, label) == [tasks EXCEPT ![t].pc = label]

\* The first statement of the try block: status deploying and logFilePath.
MarkDeploying(t) ==
    /\ tasks[t].pc = "markDeploying"
    /\ LET d == tasks[t].dep IN
       \/ /\ rows' = [rows EXCEPT ![d].status = "deploying",
                                  ![d].logFilePath = LogFilePathOf(d)]
          /\ tasks' = Goto(t, "workspace")
       \/ /\ tasks' = Throw(t, "database update failed")
          /\ UNCHANGED rows
    /\ UNCHANGED << config, deploymentQueue, runningDeployments, immediates,
                    enqueued, startOrder, environment, stateErrors, files >>

\* A step that touches neither the table nor the supervisor: it either goes on
\* to the next step or throws.
LocalStep(t, from, to, message) ==
    /\ tasks[t].pc = from
    /\ \/ tasks' = Goto(t, to)
       \/ tasks' = Throw(t, message)
    /\ UNCHANGED << config, rows, deploymentQueue, runningDeployments, immediates,
                    enqueued, startOrder, environment, stateErrors, files >>

\* mkdir of the working directory and build-output, sudo chown.
PrepareWorkspace(t) ==
    LocalStep(t, "workspace", "clone",
              "Failed to prepare deployment workspace or change ownership")

\* cloneDir of cloneRepository: path.join(homeDir, '.next-live-clones',
\* `deployment-${deploymentId}-repo`), the directory it clones into (the
\* repository itself is put in its subdirectory 'repository').
cloneDir(d) == [base |-> ".next-live-clones", deployment |-> d]

\* wsl2CloneBaseDir of processDeployment: path.join(os.homedir(),
\* '.code-catalyst-clones', `deployment-${deploymentId}-repo`).
wsl2CloneBaseDir(d) == [base |-> ".code-catalyst-clones", deployment |-> d]

\* fs.rm(dir, {recursive: true, force: true}) on the directories that hold a
\* clone: dir and what it holds are gone; a dir that does not exist is no error.
rm(directories, dir) == directories \ {dir}

\* 1. cloneRepository: mkdir of cloneDir and git clone into it.  A clone that
\* fails leaves no repository behind and is thrown again.
CloneRepository(t) ==
    /\ tasks[t].pc = "clone"
    /\ \/ /\ tasks' = [tasks EXCEPT ![t].pc = "build", ![t].clonedRepoPath = TRUE]
          /\ clones' = clones \cup {cloneDir(tasks[t].dep)}
       \/ /\ tasks' = Throw(t, "git clone failed")
          /\ UNCHANGED clones
    /\ UNCHANGED << config, rows, deploymentQueue, runningDeployments, immediates,
                    enqueued, startOrder, environment, stateErrors,
                    logFiles, cleanups, proxyConfigs, sitesEnabled, scan, calls >>

\* fs.mkdir(path.dirname(logFilePath), {recursive: true}) and
\* createWriteStream(logFilePath, {flags: 'a'}): the log file exists afterwards.
OpenLogStream(d) == logFiles \cup {d}

\* What can happen to the log sink of a phase: the directory is made and the
\* file opened; fs.mkdir rejects; or the directory is there and the stream
\* fails to open the file, which it reports with an 'error' event.
LogSinks == {"ok", "mkdir", "open"}

\* The log files after a phase has set up its log sink.
LogStream(d, sink) == IF sink = "ok" THEN OpenLogStream(d) ELSE logFiles

\* An 'error' event without a listener is thrown, nothing catches it and the
\* process exits: the queue, the counter and the scheduled callbacks are gone
\* with it and no call of processDeployment goes on; the table, the
\* supervisor and the files stay as they are.
UncaughtException ==
    /\ tasks' = [u \in TaskIds |->
                    IF tasks[u].pc \in {"unused", "done"} THEN tasks[u]
                    ELSE [tasks[u] EXCEPT !.pc = "lost"]]
    /\ deploymentQueue' = << >>
    /\ runningDeployments' = 0
    /\ immediates' = 0
    /\ UNCHANGED << config, rows, enqueued, startOrder, environment, stateErrors,
                    files >>

\* A buildProjectImage that spawns docker build before it selects the Dockerfile.
BuildProjectImageBuildsFirst(t) ==
    /\ tasks[t].pc = "build"
    /\ \/ \E source \in BuildResults :
             tasks' = [tasks EXCEPT ![t].pc = "extract",
                                    ![t].dockerfileUsedResult = source,
                                    ![t].imageBuilds = @ + 1]
       \/ tasks' = [tasks EXCEPT ![t].pc = "markFailed",
                                  ![t].error = "Docker build failed",
                                  ![t].imageBuilds = @ + 1,
                                  ![t].errorLogged = TRUE]
       \/ \E message \in PlanErrors :
             tasks' = [tasks EXCEPT ![t].pc = "markFailed",
                                    ![t].error = message,
                                    ![t].imageBuilds = @ + 1,
                                    ![t].errorLogged = TRUE]
    /\ logFiles' = OpenLogStream(tasks[t].dep)
    /\ UNCHANGED << config, rows, deploymentQueue, runningDeployments, immediates,
                    enqueued, startOrder, environment, stateErrors,
                    cleanups, proxyConfigs, sitesEnabled, clones, scan, calls >>

\* 2. buildProjectImage: it appends to the log file from its first statement
\* on, selects the Dockerfile and rejects with the configuration error of the
\* selection, or else runs docker build and resolves with the source it
\* selected or rejects with docker's failure.  dockerfileUsedResult is assigned
\* only when it resolves.  Without a log stream (logStream is null, or its
\* 'error' listener ran) it does the same and writes to the console.
BuildProjectImageLogging(t, sink) ==
    /\ tasks[t].pc = "build"
    /\ \/ \E source \in BuildResults :
             tasks' = [tasks EXCEPT ![t].pc = "extract",
                                    ![t].dockerfileUsedResult = source,
                                    ![t].imageBuilds = @ + 1]
       \/ tasks' = [tasks EXCEPT ![t].pc = "markFailed",
                                  ![t].error = "Docker build failed",
                                  ![t].imageBuilds = @ + 1,
                                  ![t].errorLogged = (sink = "ok")]
       \/ \E message \in PlanErrors :
             tasks' = IF sink = "ok" THEN ThrowLogged(t, message)
                      ELSE Throw(t, message)
    /\ logFiles' = LogStream(tasks[t].dep, sink)
    /\ UNCHANGED << config, rows, deploymentQueue, runningDeployments, immediates,
                    enqueued, startOrder, environment, stateErrors,
                    cleanups, proxyConfigs, sitesEnabled, clones, scan, calls >>

BuildProjectImage(t) == BuildProjectImageLogging(t, "ok")

\* 3. extractBuildArtifacts, which appends to the log file as well and has an
\* 'error' listener on its stream.  It rejects when the output directory cannot
\* be made or docker run cannot be started; whatever the copy script does, the
\* close handler resolves.
ExtractBuildArtifactsLogging(t, sink) ==
    /\ tasks[t].pc = "extract"
    /\ \/ tasks' = Goto(t, "cleanupClone")
       \/ \* fs.mkdir(buildOutputPath) rejects: nothing is written about it
          tasks' = Throw(t, "artifact extraction failed")
       \/ \* docker run fails to start: Artifact Extraction Failed (Process Error)
          /\ sink = "ok"
          /\ tasks' = ThrowLogged(t, "artifact extraction failed")
    /\ logFiles' = LogStream(tasks[t].dep, sink)
    /\ UNCHANGED << config, rows, deploymentQueue, runningDeployments, immediates,
                    enqueued, startOrder, environment, stateErrors,
                    cleanups, proxyConfigs, sitesEnabled, clones, scan, calls >>

ExtractBuildArtifacts(t) == ExtractBuildArtifactsLogging(t, "ok")

\* cleanUpCloneDirectory(wsl2CloneBaseDir, logFilePath) opens the log file,
\* removes the directory it is given (or fails to, and logs that) and never
\* throws.  Its stream has no 'error' listener.
CleanUpCloneDirectoryLogging(t, sink) ==
    /\ tasks[t].pc = "cleanupClone"
    /\ IF sink = "open"
       THEN UncaughtException
       ELSE /\ tasks' = Goto(t, "startApp")
            /\ logFiles' = LogStream(tasks[t].dep, sink)
            /\ clones' \in {rm(clones, wsl2CloneBaseDir(tasks[t].dep)), clones}
            /\ UNCHANGED << config, rows, deploymentQueue, runningDeployments,
                            immediates, enqueued, startOrder, environment,
                            stateErrors, cleanups, proxyConfigs, sitesEnabled,
                            scan, calls >>

CleanUpCloneDirectory(t) == CleanUpCloneDirectoryLogging(t, "ok")

\* The supervisor's list holds, for each name deploy-<id>, the processes of
\* that name; a process is recorded by the PORT it was started with.
Registered(d) == Len(pm2[d]) > 0

PortOf(d) == pm2[d][Len(pm2[d])]

\* Ports of the range on which a probe would fail to bind.
BusyPorts == { PortOf(e) : e \in listening }

\* A scan that takes every port of the range for free.
FreePortsUnprobed == PortRange

FreePorts == PortRange \ BusyPorts

Lowest(S) == CHOOSE p \in S : \A q \in S : p <= q

\* findFreePort: ascending scan, first port whose probe bound.
findFreePort == Lowest(FreePorts)

\* A delete that leaves the processes of the name in the list.
pm2DeleteKeeps(processes) == processes

\* pm2.delete(processName): the processes of that name leave the list; with none
\* of that name the answer is "not found" and the list is as before.
pm2Delete(processes) == << >>

\* What the callback of pm2.start receives: an error, an empty process list, a
\* process without a status, a process with a status.
StartAnswers == {"error", "empty", "nostatus", "errored", "online"}

\* appStatus: the status of apps[0] when there is one, 'unknown' otherwise.
appStatus(answer) ==
    IF answer \in {"empty", "nostatus"} THEN "unknown" ELSE answer

\* The message of the rejection for a process that is not online.
NotOnlineMessage(status) ==
    IF status = "unknown"
    THEN "PM2 process started but is not online (status: unknown)"
    ELSE "PM2 process started but is not online (status: errored)"

\* pm2.start(pm2Config): with an answer that carries a process, that process is
\* in the list with the PORT of pm2Config.
pm2Start(processes, answer, port) ==
    IF answer \in {"error", "empty"} THEN processes ELSE Append(processes, port)

\* A rejection that never says which status the process had.
StartRejectionWithoutStatus(answer) == "Failed to start application process"

\* The rejection of startApplicationWithPm2 for an answer other than online.
StartRejection(answer) ==
    IF answer = "error"
    THEN "Failed to start application process"
    ELSE NotOnlineMessage(appStatus(answer))

\* 4. startApplication: findFreePort, then startApplicationWithPm2, which
\* deletes the processes named deploy-<id> and starts one; whatever is thrown
\* reaches the catch block of processDeployment, there is no second attempt.
StartApplication(t) ==
    /\ tasks[t].pc = "startApp"
    /\ LET d == tasks[t].dep IN
       \/ \* no free port
          /\ FreePorts = {}
          /\ tasks' = Throw(t, "No free ports found in range")
          /\ UNCHANGED environment
       \/ \* entry point or build output missing, or no connection to the daemon
          /\ FreePorts # {}
          /\ tasks' = Throw(t, "Failed during application serving setup")
          /\ UNCHANGED environment
       \/ \* delete, start, and the answer of the start
          /\ FreePorts # {}
          /\ \E answer \in StartAnswers :
                /\ pm2' = [pm2 EXCEPT ![d] =
                              pm2Start(pm2Delete(pm2[d]), answer, findFreePort)]
                /\ tasks' =
                      IF answer = "online"
                      THEN [tasks EXCEPT ![t].pc = "findProject",
                                         ![t].internalPort = findFreePort,
                                         ![t].starts = @ + 1,
                                         ![t].startOutcome = answer]
                      ELSE [tasks EXCEPT ![t].pc = "markFailed",
                                         ![t].error = StartRejection(answer),
                                         ![t].starts = @ + 1,
                                         ![t].startOutcome = answer]
          /\ listening' = listening \ {d}
    /\ UNCHANGED << config, rows, deploymentQueue, runningDeployments, immediates,
                    enqueued, startOrder, stateErrors, files >>

\* The supervised application binds the port it was given in PORT, if it is
\* still free; it may do so at any time after the start, or never.
AppListens(d) ==
    /\ Registered(d)
    /\ d \notin listening
    /\ PortOf(d) \notin BusyPorts
    /\ listening' = listening \cup {d}
    /\ UNCHANGED << config, rows, deploymentQueue, runningDeployments, immediates,
                    tasks, enqueued, startOrder, pm2, stateErrors, files >>

\* prisma.project.findUnique, then the choice of the URL scheme.
FindProject(t) ==
    /\ tasks[t].pc = "findProject"
    /\ \/ /\ isProduction /\ tasks[t].internalPort # 0
          /\ tasks' = [tasks EXCEPT ![t].pc = "mint", ![t].attempt = 0]
       \/ /\ ~isProduction /\ tasks[t].internalPort # 0
          /\ tasks' = [tasks EXCEPT ![t].pc = "storeUrl",
                          ![t].finalDeploymentUrl = LocalhostUrl(tasks[t].internalPort)]
       \/ tasks' = Throw(t, "database query failed")
    /\ UNCHANGED << config, rows, deploymentQueue, runningDeployments, immediates,
                    enqueued, startOrder, environment, stateErrors, files >>

\* prisma.deployment.findFirst({deploymentUrl: url, status in [success, deploying]}).
ExistingDeployment(url) ==
    \E e \in DeploymentIds :
        /\ rows[e].deploymentUrl = url
        /\ rows[e].status \in {"success", "deploying"}

\* A minting loop that takes its first candidate without looking it up.
MintUrlUnchecked(t) ==
    /\ tasks[t].pc = "mint"
    /\ \/ \E r \in RandomStrings :
            tasks' = [tasks EXCEPT ![t].pc = "storeUrl",
                                   ![t].finalDeploymentUrl = GeneratedUrl(r)]
       \/ tasks' = Throw(t, "database query failed")
    /\ UNCHANGED << config, rows, deploymentQueue, runningDeployments, immediates,
                    enqueued, startOrder, environment, stateErrors, files >>

\* One iteration of the minting loop: a random candidate and its collision check.
MintUrl(t) ==
    /\ tasks[t].pc = "mint"
    /\ \/ \E r \in RandomStrings :
            IF ~ExistingDeployment(GeneratedUrl(r))
            THEN tasks' = [tasks EXCEPT ![t].pc = "storeUrl",
                                        ![t].finalDeploymentUrl = GeneratedUrl(r)]
            ELSE IF tasks[t].attempt + 1 < MAX_URL_GENERATION_ATTEMPTS
            THEN tasks' = [tasks EXCEPT ![t].attempt = @ + 1]
            ELSE tasks' = [tasks EXCEPT ![t].pc = "fallbackCheck",
                                        ![t].attempt = @ + 1,
                                        ![t].finalDeploymentUrl = FallbackUrl(tasks[t].dep)]
       \/ tasks' = Throw(t, "database query failed")
    /\ UNCHANGED << config, rows, deploymentQueue, runningDeployments, immediates,
                    enqueued, startOrder, environment, stateErrors, files >>

\* The final check of the fallback https://deploy-<id>.<platform>.
FallbackCheck(t) ==
    /\ tasks[t].pc = "fallbackCheck"
    /\ \/ /\ ~ExistingDeployment(tasks[t].finalDeploymentUrl)
          /\ tasks' = Goto(t, "storeUrl")
       \/ /\ ExistingDeployment(tasks[t].finalDeploymentUrl)
          /\ tasks' = Throw(t, "Failed to generate a unique deployment URL even with fallback pattern.")
       \/ tasks' = Throw(t, "database query failed")
    /\ UNCHANGED << config, rows, deploymentQueue, runningDeployments, immediates,
                    enqueued, startOrder, environment, stateErrors, files >>

\* A URL write after which the proxy is configured in either mode.
StoreUrlAlwaysProxies(t) ==
    /\ tasks[t].pc = "storeUrl"
    /\ \/ /\ rows' = [rows EXCEPT ![tasks[t].dep].deploymentUrl =
                                      tasks[t].finalDeploymentUrl]
          /\ tasks' = Goto(t, "nginx")
       \/ /\ tasks' = Throw(t, "database update failed")
          /\ UNCHANGED rows
    /\ UNCHANGED << config, deploymentQueue, runningDeployments, immediates,
                    enqueued, startOrder, environment, stateErrors, files >>

\* prisma.deployment.update({deploymentUrl: finalDeploymentUrl}).
StoreUrl(t) ==
    /\ tasks[t].pc = "storeUrl"
    /\ \/ /\ rows' = [rows EXCEPT ![tasks[t].dep].deploymentUrl =
                                      tasks[t].finalDeploymentUrl]
          /\ tasks' = Goto(t, IF isProduction THEN "nginx" ELSE "markSuccess")
       \/ /\ tasks' = Throw(t, "database update failed")
          /\ UNCHANGED rows
    /\ UNCHANGED << config, deploymentQueue, runningDeployments, immediates,
                    enqueued, startOrder, environment, stateErrors, files >>

\* The file deploy-<id>.conf as generateNginxConfig fills it.
ProxyConfig(d, useHttps) == [id |-> d, useHttps |-> useHttps]

\* One privileged command of configureNginxForDeployment, as the call that
\* issued it saw it end.
ProxyCommand(name, exited) == [command |-> name, exitedSuccessfully |-> exited]

\* configureNginxForDeployment(..., true), called in production only.  Its
\* first await: the log file is opened and the configuration is piped to
\* sudo tee <sites-available>/deploy-<id>.conf.  When tee fails the promise
\* rejects, the catch block logs and rethrows; the file may have been written
\* in part.
WriteProxyConfigLogging(t, sink) ==
    /\ tasks[t].pc = "nginx"
    /\ LET d == tasks[t].dep IN
       /\ logFiles' = LogStream(d, sink)
       /\ \/ /\ tasks' = [tasks EXCEPT ![t].pc = "nginxLink",
                                        ![t].logStream = (sink = "ok"),
                                        ![t].proxyCommands =
                                            Append(@, ProxyCommand("tee", TRUE))]
             /\ proxyConfigs' = proxyConfigs \cup {ProxyConfig(d, TRUE)}
          \/ /\ tasks' = [tasks EXCEPT ![t].pc = "markFailed",
                                        ![t].error = "Failed to configure Nginx",
                                        ![t].errorLogged = (sink = "ok"),
                                        ![t].proxyCommands =
                                            Append(@, ProxyCommand("tee", FALSE))]
             /\ proxyConfigs' \in
                    {proxyConfigs, proxyConfigs \cup {ProxyConfig(d, TRUE)}}
    /\ UNCHANGED << config, rows, deploymentQueue, runningDeployments, immediates,
                    enqueued, startOrder, environment, stateErrors,
                    cleanups, sitesEnabled, clones, scan, calls >>

WriteProxyConfig(t) == WriteProxyConfigLogging(t, "ok")

\* A symlink step whose exit code is not looked at.
LinkProxyConfigIgnoresExit(t) ==
    /\ tasks[t].pc = "nginxLink"
    /\ LET d == tasks[t].dep IN
       \/ /\ tasks' = [tasks EXCEPT ![t].pc = "nginxReload",
                                     ![t].proxyCommands =
                                         Append(@, ProxyCommand("ln", TRUE))]
          /\ sitesEnabled' = sitesEnabled \cup {d}
       \/ /\ tasks' = [tasks EXCEPT ![t].pc = "nginxReload",
                                     ![t].proxyCommands =
                                         Append(@, ProxyCommand("ln", FALSE))]
          /\ UNCHANGED sitesEnabled
    /\ UNCHANGED << config, rows, deploymentQueue, runningDeployments, immediates,
                    enqueued, startOrder, environment, stateErrors,
                    logFiles, cleanups, proxyConfigs, clones, scan, calls >>

\* Its second await: sudo ln -sf <sites-available>/deploy-<id>.conf
\* <sites-enabled>/deploy-<id>.conf through executeShellCommand.
LinkProxyConfig(t) ==
    /\ tasks[t].pc = "nginxLink"
    /\ LET d == tasks[t].dep IN
       \/ /\ tasks' = [tasks EXCEPT ![t].pc = "nginxReload",
                                     ![t].proxyCommands =
                                         Append(@, ProxyCommand("ln", TRUE))]
          /\ sitesEnabled' = sitesEnabled \cup {d}
       \/ /\ tasks' = [tasks EXCEPT ![t].pc = "markFailed",
                                     ![t].error = "Failed to configure Nginx",
                                     ![t].errorLogged = tasks[t].logStream,
                                     ![t].proxyCommands =
                                         Append(@, ProxyCommand("ln", FALSE))]
          /\ UNCHANGED sitesEnabled
    /\ UNCHANGED << config, rows, deploymentQueue, runningDeployments, immediates,
                    enqueued, startOrder, environment, stateErrors,
                    logFiles, cleanups, proxyConfigs, clones, scan, calls >>

\* Its third await: reloadNginx, the reload command through executeShellCommand.
ReloadNginx(t) ==
    /\ tasks[t].pc = "nginxReload"
    /\ \/ tasks' = [tasks EXCEPT ![t].pc = "markSuccess",
                                  ![t].proxyCommands =
                                      Append(@, ProxyCommand("reload", TRUE))]
       \/ tasks' = [tasks EXCEPT ![t].pc = "markFailed",
                                  ![t].error = "Failed to configure Nginx",
                                  ![t].errorLogged = tasks[t].logStream,
                                  ![t].proxyCommands =
                                      Append(@, ProxyCommand("reload", FALSE))]
    /\ UNCHANGED << config, rows, deploymentQueue, runningDeployments, immediates,
                    enqueued, startOrder, environment, stateErrors, files >>

\* configureNginxForDeployment, await by await.
ConfigureNginx(t) ==
    \/ WriteProxyConfig(t)
    \/ LinkProxyConfig(t)
    \/ ReloadNginx(t)

\* A success write that leaves dockerfileUsed out (as the resolver's own does).
MarkSuccessWithoutDockerfile(t) ==
    /\ tasks[t].pc = "markSuccess"
    /\ LET d == tasks[t].dep IN
       \/ /\ rows' = [rows EXCEPT ![d].status = "success",
                                  ![d].buildOutputPath = BuildOutputPathOf(d),
                                  ![d].deploymentUrl = tasks[t].finalDeploymentUrl,
                                  ![d].internalPort = tasks[t].internalPort]
          /\ TaskSettles(t, tasks)
       \/ /\ tasks' = Throw(t, "database update failed")
          /\ UNCHANGED << rows, config, deploymentQueue, runningDeployments,
                          immediates, enqueued, startOrder >>
    /\ UNCHANGED << environment, stateErrors, files >>

\* The write of status success; the task's promise resolves after it.
MarkSuccess(t) ==
    /\ tasks[t].pc = "markSuccess"
    /\ LET d == tasks[t].dep IN
       \/ /\ rows' = [rows EXCEPT ![d].status = "success",
                                  ![d].buildOutputPath = BuildOutputPathOf(d),
                                  ![d].deploymentUrl = tasks[t].finalDeploymentUrl,
                                  ![d].internalPort = tasks[t].internalPort,
                                  ![d].dockerfileUsed = tasks[t].dockerfileUsedResult]
          /\ TaskSettles(t, tasks)
       \/ /\ tasks' = Throw(t, "database update failed")
          /\ UNCHANGED << rows, config, deploymentQueue, runningDeployments,
                          immediates, enqueued, startOrder >>
    /\ UNCHANGED << environment, stateErrors, files >>

\* Cleanup on Failure: the removals the catch block starts and does not await.
CleanupOnFailure(t) ==
    {"workingDir"} \cup (IF tasks[t].clonedRepoPath THEN {"cloneDir"} ELSE {})

\* A catch block that also deletes the supervisor process of the deployment.
MarkFailedDeletesProcess(t) ==
    /\ tasks[t].pc = "markFailed"
    /\ LET d == tasks[t].dep IN
       /\ \/ /\ rows' = [rows EXCEPT ![d].status = "failed",
                                     ![d].dockerfileUsed = tasks[t].dockerfileUsedResult,
                                     ![d].errorMessage = tasks[t].error,
                                     ![d].internalPort =
                                         IF tasks[t].internalPort # 0
                                         THEN tasks[t].internalPort ELSE @]
             /\ UNCHANGED stateErrors
          \/ /\ stateErrors' = stateErrors \cup {d}
             /\ UNCHANGED rows
       /\ pm2' = [pm2 EXCEPT ![d] = pm2Delete(@)]
       /\ listening' = listening \ {d}
    /\ cleanups' = [cleanups EXCEPT ![tasks[t].dep] = @ \cup CleanupOnFailure(t)]
    /\ TaskSettles(t, tasks)
    /\ UNCHANGED << logFiles, proxyConfigs, sitesEnabled, clones, scan, calls >>

\* The catch block: the write of status failed.  The finalDeploymentUrl it reads
\* is the outer variable, which is never assigned, so deploymentUrl is not part
\* of the write; internalPort is written when it was obtained.  If the write
\* itself fails the error is logged and the row keeps what it had.  Either way
\* the cleanup is started without being awaited and the promise resolves.
MarkFailed(t) ==
    /\ tasks[t].pc = "markFailed"
    /\ LET d == tasks[t].dep IN
       \/ /\ rows' = [rows EXCEPT ![d].status = "failed",
                                  ![d].dockerfileUsed = tasks[t].dockerfileUsedResult,
                                  ![d].errorMessage = tasks[t].error,
                                  ![d].internalPort =
                                      IF tasks[t].internalPort # 0
                                      THEN tasks[t].internalPort ELSE @]
          /\ UNCHANGED stateErrors
       \/ /\ stateErrors' = stateErrors \cup {d}
          /\ UNCHANGED rows
    /\ cleanups' = [cleanups EXCEPT ![tasks[t].dep] = @ \cup CleanupOnFailure(t)]
    /\ TaskSettles(t, tasks)
    /\ UNCHANGED << environment, logFiles, proxyConfigs, sitesEnabled, clones, scan, calls >>

\* The detached fs.rm(deploymentWorkingDir, {recursive, force}) finishes: the
\* directory is gone and the log file with it, or the removal failed part-way
\* and its .catch logged that.
RemoveWorkingDirectory(d) ==
    /\ "workingDir" \in cleanups[d]
    /\ cleanups' = [cleanups EXCEPT ![d] = @ \ {"workingDir"}]
    /\ logFiles' \in {logFiles \ {d}, logFiles}
    /\ UNCHANGED << config, rows, deploymentQueue, runningDeployments, immediates,
                    tasks, enqueued, startOrder, environment, stateErrors,
                    proxyConfigs, sitesEnabled, clones, scan, calls >>

\* The detached cleanUpCloneDirectory(wsl2CloneBaseDir, logFilePath) finishes:
\* it has opened the log file and removed the directory it was given.
DetachedCloneCleanup(d) ==
    /\ "cloneDir" \in cleanups[d]
    /\ cleanups' = [cleanups EXCEPT ![d] = @ \ {"cloneDir"}]
    /\ logFiles' = OpenLogStream(d)
    /\ clones' \in {rm(clones, wsl2CloneBaseDir(d)), clones}
    /\ UNCHANGED << config, rows, deploymentQueue, runningDeployments, immediates,
                    tasks, enqueued, startOrder, environment, stateErrors,
                    proxyConfigs, sitesEnabled, scan, calls >>

\* Every step of the call of processDeployment that task t stands for.
TaskStep(t) ==
    \/ MarkDeploying(t)
    \/ PrepareWorkspace(t)
    \/ CloneRepository(t)
    \/ BuildProjectImage(t)
    \/ ExtractBuildArtifacts(t)
    \/ CleanUpCloneDirectory(t)
    \/ StartApplication(t)
    \/ FindProject(t)
    \/ MintUrl(t)
    \/ FallbackCheck(t)
    \/ StoreUrl(t)
    \/ ConfigureNginx(t)
    \/ MarkSuccess(t)
    \/ MarkFailed(t)

Next ==
    \/ \E d \in DeploymentIds : CreateDeployment(d)
    \/ \E d \in DeploymentIds : EnqueueDeployment(d)
    \/ DeploymentWorker
    \/ \E d \in DeploymentIds : AppListens(d)
    \/ \E t \in TaskIds : TaskStep(t)

\* The orchestrator for every ceiling in Ceilings, in both modes.
Spec == Init /\ [][Next]_vars

\* The orchestrator with the ceiling the source sets.
ShippedInit == Init /\ maxConcurrent = MAX_CONCURRENT_DEPLOYMENTS

ShippedSpec == ShippedInit /\ [][Next]_vars

\* Node runs every scheduled callback, and every awaited call of a started task
\* returns: weak fairness of the worker callback and of each task's steps.
FairSpec ==
    /\ Init
    /\ [][Next]_vars
    /\ WF_vars(DeploymentWorker)
    /\ \A t \in 1..MaxEnqueues : WF_vars(TaskStep(t))

(* ---------------------- URL minting on its own ------------------------- *)

\* A step of task t in which no external call fails: the only exception is the
\* one processDeployment throws itself, for a fallback URL that is taken.
NoExternalFailure(t) ==
    /\ stateErrors' = stateErrors
    /\ (tasks'[t].pc = "markFailed" /\ tasks[t].pc # "markFailed") =>
           /\ tasks[t].pc = "fallbackCheck"
           /\ ExistingDeployment(tasks[t].finalDeploymentUrl)

MintNext ==
    \/ \E d \in DeploymentIds : CreateDeployment(d)
    \/ \E d \in DeploymentIds : Enqueue(d, MaxMintEnqueues)
    \/ DeploymentWorker
    \/ \E d \in DeploymentIds : AppListens(d)
    \/ \E t \in TaskIds : TaskStep(t) /\ NoExternalFailure(t)

MintInit == Init /\ maxConcurrent = MAX_CONCURRENT_DEPLOYMENTS /\ isProduction

\* The orchestrator in production mode with the ceiling the source sets, the
\* database, docker, git, pm2 and nginx answering without error.
MintSpec == MintInit /\ [][MintNext]_vars

(* ---------------------- findFreePort on its own ------------------------ *)

ScanPorts ==
    DEPLOYMENT_PORT_RANGE_START..(DEPLOYMENT_PORT_RANGE_START + MaxScan - 1)

\* The call findFreePort(startPort, endPort) at its first statement, with the
\* ports in busy being those on which a probe does not get to listen.
NewScan(startPort, endPort, busy) ==
    [ startPort |-> startPort, endPort |-> endPort, busy |-> busy,
      port |-> startPort, probes |-> 0, result |-> "scanning", returned |-> 0 ]

\* An iteration that returns its port without probing it.
ProbePortUnprobed ==
    /\ scan.result = "scanning"
    /\ scan.port <= scan.endPort
    /\ scan' = [scan EXCEPT !.result = "returned", !.returned = scan.port]
    /\ UNCHANGED << config, rows, deploymentQueue, runningDeployments, immediates,
                    tasks, enqueued, startOrder, environment, stateErrors,
                    logFiles, cleanups, proxyConfigs, sitesEnabled, clones, calls >>

\* One iteration of the for loop: the probe of scan.port; a probe that
\* listened returns the port, any other probe moves on to the next port.
ProbePort ==
    /\ scan.result = "scanning"
    /\ scan.port <= scan.endPort
    /\ scan' = IF scan.port \notin scan.busy
               THEN [scan EXCEPT !.probes = @ + 1, !.result = "returned",
                                 !.returned = scan.port]
               ELSE [scan EXCEPT !.probes = @ + 1, !.port = @ + 1]
    /\ UNCHANGED << config, rows, deploymentQueue, runningDeployments, immediates,
                    tasks, enqueued, startOrder, environment, stateErrors,
                    logFiles, cleanups, proxyConfigs, sitesEnabled, clones, calls >>

\* A loop exit that hands out endPort instead of throwing.
NoFreePortsReturnsEnd ==
    /\ scan.result = "scanning"
    /\ scan.port > scan.endPort
    /\ scan' = [scan EXCEPT !.result = "returned", !.returned = scan.endPort]
    /\ UNCHANGED << config, rows, deploymentQueue, runningDeployments, immediates,
                    tasks, enqueued, startOrder, environment, stateErrors,
                    logFiles, cleanups, proxyConfigs, sitesEnabled, clones, calls >>

\* The loop condition fails: throw new Error('No free ports found in range').
NoFreePorts ==
    /\ scan.result = "scanning"
    /\ scan.port > scan.endPort
    /\ scan' = [scan EXCEPT !.result = "NoFreePort"]
    /\ UNCHANGED << config, rows, deploymentQueue, runningDeployments, immediates,
                    tasks, enqueued, startOrder, environment, stateErrors,
                    logFiles, cleanups, proxyConfigs, sitesEnabled, clones, calls >>

PortNext == ProbePort \/ NoFreePorts

\* Every range within ScanPorts, the empty ranges that end one below their
\* start included, and every set of busy ports.
PortInit ==
    /\ OrchestratorInit
    /\ maxConcurrent = MAX_CONCURRENT_DEPLOYMENTS
    /\ ~isProduction
    /\ \E startPort \in ScanPorts, busy \in SUBSET ScanPorts :
          \E endPort \in (DEPLOYMENT_PORT_RANGE_START - 1)..
                              (DEPLOYMENT_PORT_RANGE_START + MaxScan - 1) :
               scan = NewScan(startPort, endPort, busy)
    /\ IdleCalls

PortSpec == PortInit /\ [][PortNext]_vars

(* ------------------ the minted hostname on its own --------------------- *)

\* The characters project names are made of here: a lower-case letter, an
\* upper-case letter, a space, a hyphen and a character outside [a-z0-9-].
NameChars == {"a", "B", " ", "-", "!"}

\* Project names of up to MaxNameLength characters, '' included.
Names == UNION { [1..n -> NameChars] : n \in 0..MaxNameLength }

\* String.prototype.toLowerCase.
toLowerCase(str) == [i \in 1..Len(str) |-> IF str[i] = "B" THEN "b" ELSE str[i]]

\* str.replace(/c+/g, by): every maximal run of the character c becomes by.
RECURSIVE ReplaceRuns(_, _, _)
ReplaceRuns(str, c, by) ==
    IF str = << >> THEN << >>
    ELSE IF Head(str) # c THEN << Head(str) >> \o ReplaceRuns(Tail(str), c, by)
    ELSE IF Len(str) > 1 /\ str[2] = c THEN ReplaceRuns(Tail(str), c, by)
    ELSE by \o ReplaceRuns(Tail(str), c, by)

\* str.replace(/[^a-z0-9-]/g, '').
RemoveSpecial(str) == SelectSeq(str, LAMBDA c : c \in {"a", "b", "-"})

\* A trim that leaves the leading hyphens in place.
KeepLeading(str) == str

\* str.replace(/^-+/, '').
RECURSIVE TrimLeading(_)
TrimLeading(str) ==
    IF str # << >> /\ Head(str) = "-" THEN TrimLeading(Tail(str)) ELSE str

\* str.replace(/-+$/, '').
RECURSIVE TrimTrailing(_)
TrimTrailing(str) ==
    IF str # << >> /\ str[Len(str)] = "-"
    THEN TrimTrailing(SubSeq(str, 1, Len(str) - 1)) ELSE str

\* str.substring(0, maxLength).
substring(str, maxLength) ==
    SubSeq(str, 1, IF Len(str) < maxLength THEN Len(str) ELSE maxLength)

\* sanitizeForSubdomain(str, maxLength).
sanitizeForSubdomain(str, maxLength) ==
    IF str = << >> THEN << >>
    ELSE substring(
             TrimTrailing(TrimLeading(
                 ReplaceRuns(
                     RemoveSpecial(ReplaceRuns(toLowerCase(str), " ", << "-" >>)),
                     "-", << "-" >>))),
             maxLength)

\* `${sanitizedProjectName}`.replace(/-$/, '').
baseSubdomainPart(sanitizedProjectName) ==
    IF sanitizedProjectName # << >>
           /\ sanitizedProjectName[Len(sanitizedProjectName)] = "-"
    THEN SubSeq(sanitizedProjectName, 1, Len(sanitizedProjectName) - 1)
    ELSE sanitizedProjectName

\* `${baseSubdomainPart}-${randomString}`.
proposedSubdomain(base, r) == base \o << "-" >> \o << ToString(r) >>

\* https://<proposedSubdomain>.<platform>.
PotentialOperationalUrl(base, r) ==
    [kind |-> "generated", n |-> r, subdomain |-> proposedSubdomain(base, r)]

\* The production branch is entered for deployment d of a project named name.
NewNaming(d, name) ==
    [ dep |-> d, name |-> name, stage |-> "sanitize", base |-> << >>,
      attempt |-> 0, url |-> EmptyUrl ]

\* sanitizeForSubdomain(projectName) and baseSubdomainPart.
SanitizeName ==
    /\ naming.stage = "sanitize"
    /\ naming' = [naming EXCEPT
                     !.stage = "loop",
                     !.base = baseSubdomainPart(
                                  sanitizeForSubdomain(naming.name, SUBDOMAIN_MAX_LENGTH))]
    /\ UNCHANGED << config, rows, deploymentQueue, runningDeployments, immediates,
                    tasks, enqueued, startOrder, environment, stateErrors,
                    logFiles, cleanups, proxyConfigs, sitesEnabled, clones, scan, plan,
                    failure, studies >>

\* One iteration of the while loop; existingDeployment is what findFirst answers.
ProposeSubdomain ==
    /\ naming.stage = "loop"
    /\ \E r \in RandomStrings, existingDeployment \in BOOLEAN :
          naming' =
              IF ~existingDeployment
              THEN [naming EXCEPT !.stage = "minted",
                                  !.url = PotentialOperationalUrl(naming.base, r)]
              ELSE IF naming.attempt + 1 < MAX_URL_GENERATION_ATTEMPTS
              THEN [naming EXCEPT !.attempt = @ + 1]
              ELSE [naming EXCEPT !.attempt = @ + 1, !.stage = "fallback"]
    /\ UNCHANGED << config, rows, deploymentQueue, runningDeployments, immediates,
                    tasks, enqueued, startOrder, environment, stateErrors,
                    logFiles, cleanups, proxyConfigs, sitesEnabled, clones, scan, plan,
                    failure, studies >>

\* if (!finalDeploymentUrl): the fallback and its final check.
FallbackSubdomain ==
    /\ naming.stage = "fallback"
    /\ \E fallbackCollision \in BOOLEAN :
          naming' = IF fallbackCollision
                    THEN [naming EXCEPT !.stage = "threw"]
                    ELSE [naming EXCEPT !.stage = "minted",
                                        !.url = FallbackUrl(naming.dep)]
    /\ UNCHANGED << config, rows, deploymentQueue, runningDeployments, immediates,
                    tasks, enqueued, startOrder, environment, stateErrors,
                    logFiles, cleanups, proxyConfigs, sitesEnabled, clones, scan, plan,
                    failure, studies >>

NameNext == SanitizeName \/ ProposeSubdomain \/ FallbackSubdomain

\* Every project name in Names, for every deployment id.
NameInit ==
    /\ OrchestratorInit
    /\ maxConcurrent = MAX_CONCURRENT_DEPLOYMENTS
    /\ isProduction
    /\ scan = IdleScan
    /\ plan = IdlePlan
    /\ failure = IdleFailure
    /\ \E d \in DeploymentIds, name \in Names : naming = NewNaming(d, name)
    /\ IdleStudies

NameSpec == NameInit /\ [][NameNext]_vars

(* ------------------ sanitizeForSubdomain on its own -------------------- *)

\* The maximum lengths sanitizeForSubdomain is called with: those that cut a
\* name of the model, and the default.
MaxLengths == (0..MaxNameLength) \cup {SUBDOMAIN_MAX_LENGTH}

\* sanitizeForSubdomain(str, maxLength) is called.
NewSanitizing(str, maxLength) ==
    [ stage |-> "called", str |-> str, maxLength |-> maxLength, result |-> << >> ]

\* The call returns.
SanitizeReturns ==
    /\ sanitizing.stage = "called"
    /\ sanitizing' =
           [sanitizing EXCEPT
               !.stage = "returned",
               !.result = sanitizeForSubdomain(sanitizing.str, sanitizing.maxLength)]
    /\ UNCHANGED << config, rows, deploymentQueue, runningDeployments, immediates,
                    tasks, enqueued, startOrder, environment, stateErrors,
                    logFiles, cleanups, proxyConfigs, sitesEnabled, clones, scan,
                    naming, plan, failure, extraction, probe >>

SanitizeNext == SanitizeReturns

\* A call for every string in Names and every maximum length in MaxLengths.
SanitizeInit ==
    /\ OrchestratorInit
    /\ maxConcurrent = MAX_CONCURRENT_DEPLOYMENTS
    /\ isProduction
    /\ scan = IdleScan
    /\ naming = IdleNaming
    /\ plan = IdlePlan
    /\ failure = IdleFailure
    /\ extraction = IdleExtraction
    /\ probe = IdleProbe
    /\ \E str \in Names, maxLength \in MaxLengths :
          sanitizing = NewSanitizing(str, maxLength)

SanitizeSpec == SanitizeInit /\ [][SanitizeNext]_vars

(* ---------------- the choice of the Dockerfile on its own --------------- *)

\* buildProjectImage is called for the repository r.
NewPlan(r) ==
    [ stage |-> "detect", repo |-> r, error |-> "", dockerfilePathToUse |-> "",
      dockerfileSource |-> "unknown", spawned |-> FALSE, buildType |-> "none" ]

\* The try block of detection and selection; a configuration error is logged
\* and thrown again by its catch block, which ends the call.
DetectAndSelect ==
    /\ plan.stage = "detect"
    /\ LET selected == SelectDockerfile(plan.repo) IN
       plan' = [plan EXCEPT
                   !.stage = IF selected.error = "" THEN "selected" ELSE "configError",
                   !.error = selected.error,
                   !.dockerfilePathToUse = selected.dockerfilePathToUse,
                   !.dockerfileSource = selected.dockerfileSource]
    /\ UNCHANGED << config, rows, deploymentQueue, runningDeployments, immediates,
                    tasks, enqueued, startOrder, environment, stateErrors,
                    logFiles, cleanups, proxyConfigs, sitesEnabled, clones, scan, naming,
                    failure, studies >>

\* spawn('docker', ['build', '-t', imageName, '-f', dockerfilePathToUse, ...]).
SpawnDockerBuild ==
    /\ plan.stage = "selected"
    /\ plan' = [plan EXCEPT !.stage = "building", !.spawned = TRUE]
    /\ UNCHANGED << config, rows, deploymentQueue, runningDeployments, immediates,
                    tasks, enqueued, startOrder, environment, stateErrors,
                    logFiles, cleanups, proxyConfigs, sitesEnabled, clones, scan, naming,
                    failure, studies >>

\* A decision that takes only the platform's classic Dockerfile for classic.
buildTypeDefaultOnly(dockerfileUsedResult) ==
    IF dockerfileUsedResult = "default_classic" THEN "classic" ELSE "standalone"

\* const buildType = (dockerfileUsedResult === 'default_classic' ||
\* dockerfileUsedResult === 'user_classic_assumed') ? 'classic' : 'standalone'.
buildType(dockerfileUsedResult) ==
    IF dockerfileUsedResult = "default_classic"
           \/ dockerfileUsedResult = "user_classic_assumed"
    THEN "classic" ELSE "standalone"

\* docker build has exited with code 0 and buildProjectImage resolved with
\* {dockerfileUsed: dockerfileSource}; extraction and the clone cleanup went
\* through, and processDeployment decides the build type it hands to
\* startApplication.
DecideBuildType ==
    /\ plan.stage = "building"
    /\ plan' = [plan EXCEPT !.stage = "starting",
                            !.buildType = buildType(plan.dockerfileSource)]
    /\ UNCHANGED << config, rows, deploymentQueue, runningDeployments, immediates,
                    tasks, enqueued, startOrder, environment, stateErrors,
                    logFiles, cleanups, proxyConfigs, sitesEnabled, clones, scan, naming,
                    failure, studies >>

PlanNext == DetectAndSelect \/ SpawnDockerBuild \/ DecideBuildType

\* A call of buildProjectImage for every repository in Repos.
PlanInit ==
    /\ OrchestratorInit
    /\ maxConcurrent = MAX_CONCURRENT_DEPLOYMENTS
    /\ ~isProduction
    /\ scan = IdleScan
    /\ naming = IdleNaming
    /\ failure = IdleFailure
    /\ \E r \in Repos : plan = NewPlan(r)
    /\ IdleStudies

PlanSpec == PlanInit /\ [][PlanNext]_vars

(* ------------------ the stored error message on its own ---------------- *)

\* What docker build prints, as far as its length and its end matter: a
\* character that is not whitespace, and a newline.
OutputChars == {"x", "\n"}

\* The outputs of up to MaxOutput characters.
Outputs == UNION { [1..n -> OutputChars] : n \in 0..MaxOutput }

\* `Docker build failed (Using ... Dockerfile).\nCommand: ...\nExit Code:
\* ...\nStdout:\n${stdoutBuffer}\nStderr:\n${stderrBuffer}`; each of the two fixed
\* texts counts as one character.
fullErrorDetails(stdoutBuffer, stderrBuffer) ==
    << "Docker build failed ... Stdout:" >> \o stdoutBuffer
        \o << "Stderr:" >> \o stderrBuffer

\* docker build has exited with a code other than 0, having printed
\* stdoutBuffer and stderrBuffer.
NewFailure(stdoutBuffer, stderrBuffer) ==
    [ stage |-> "closed", stdoutBuffer |-> stdoutBuffer,
      stderrBuffer |-> stderrBuffer, message |-> << >>, errorMessage |-> << >> ]

\* The close handler of the docker process: reject(new Error(fullErrorDetails)).
RejectBuild ==
    /\ failure.stage = "closed"
    /\ failure' = [failure EXCEPT
                      !.stage = "rejected",
                      !.message = fullErrorDetails(failure.stdoutBuffer,
                                                   failure.stderrBuffer)]
    /\ UNCHANGED << config, rows, deploymentQueue, runningDeployments, immediates,
                    tasks, enqueued, startOrder, environment, stateErrors,
                    logFiles, cleanups, proxyConfigs, sitesEnabled, clones, scan, naming,
                    plan, studies >>

\* The catch block of processDeployment: deploymentErrorMessage = error.message
\* is what the update writes as errorMessage.
StoreErrorMessage ==
    /\ failure.stage = "rejected"
    /\ failure' = [failure EXCEPT !.stage = "stored",
                                  !.errorMessage = failure.message]
    /\ UNCHANGED << config, rows, deploymentQueue, runningDeployments, immediates,
                    tasks, enqueued, startOrder, environment, stateErrors,
                    logFiles, cleanups, proxyConfigs, sitesEnabled, clones, scan, naming,
                    plan, studies >>

FailureNext == RejectBuild \/ StoreErrorMessage

\* A failed docker build for every pair of outputs in Outputs.
FailureInit ==
    /\ OrchestratorInit
    /\ maxConcurrent = MAX_CONCURRENT_DEPLOYMENTS
    /\ ~isProduction
    /\ scan = IdleScan
    /\ naming = IdleNaming
    /\ plan = IdlePlan
    /\ \E stdoutBuffer \in Outputs, stderrBuffer \in Outputs :
          failure = NewFailure(stdoutBuffer, stderrBuffer)
    /\ IdleStudies

FailureSpec == FailureInit /\ [][FailureNext]_vars

(* ---------------------- one port probe on its own --------------------- *)

\* What server.listen({port, host: '127.0.0.1'}) leads to: 'listening', an
\* 'error' with code EADDRINUSE, EACCES or another code, or no event at all
\* within the time the probe is looked at.
ListenAnswers == {"listening", "EADDRINUSE", "EACCES", "EOTHER", "silent"}

\* A promise whose every resolve call takes effect.
settleAgain(settled, outcome) == outcome

\* A promise settles once: resolve and reject after that change nothing.
settle(settled, outcome) == IF settled = "pending" THEN outcome ELSE settled

\* The executor of the probe's promise has run: the 'error', 'listening' and
\* 'close' handlers are registered with once, the 250 ms timeout is armed and
\* listen has been called; findFreePort awaits the promise.
NewProbe(port, answer) ==
    [ port |-> port, answer |-> answer, bind |-> "pending", closing |-> FALSE,
      closeListener |-> TRUE, callback |-> FALSE, timeout |-> "armed",
      isPortFree |-> "pending", resolves |-> << >>, loop |-> "awaiting" ]

\* server.once('listening'): server.close(() => resolve(true)).
OnListening ==
    /\ probe.bind = "pending"
    /\ probe.answer = "listening"
    /\ probe' = [probe EXCEPT !.bind = "listening", !.closing = TRUE,
                              !.callback = TRUE]
    /\ UNCHANGED << config, rows, deploymentQueue, runningDeployments, immediates,
                    tasks, enqueued, startOrder, environment, stateErrors,
                    logFiles, cleanups, proxyConfigs, sitesEnabled, clones, scan,
                    naming, plan, failure, extraction, sanitizing >>

\* server.once('error'): server.close() and resolve(false), whatever err.code.
OnError ==
    /\ probe.bind = "pending"
    /\ probe.answer \in {"EADDRINUSE", "EACCES", "EOTHER"}
    /\ probe' = [probe EXCEPT !.bind = "error", !.closing = TRUE,
                              !.isPortFree = settle(@, "false"),
                              !.resolves = Append(@, "false")]
    /\ UNCHANGED << config, rows, deploymentQueue, runningDeployments, immediates,
                    tasks, enqueued, startOrder, environment, stateErrors,
                    logFiles, cleanups, proxyConfigs, sitesEnabled, clones, scan,
                    naming, plan, failure, extraction, sanitizing >>

\* The 'close' event a server.close() leads to: the handler registered in the
\* executor clears the timeout, then the callback given to close, if one was
\* given, calls resolve(true).  Both were registered with once.
OnClose ==
    /\ probe.closing
    /\ probe' = [probe EXCEPT
                     !.closing = FALSE,
                     !.closeListener = FALSE,
                     !.callback = FALSE,
                     !.timeout = IF probe.closeListener /\ @ = "armed"
                                 THEN "cleared" ELSE @,
                     !.isPortFree = IF probe.callback THEN settle(@, "true") ELSE @,
                     !.resolves = IF probe.callback THEN Append(@, "true") ELSE @]
    /\ UNCHANGED << config, rows, deploymentQueue, runningDeployments, immediates,
                    tasks, enqueued, startOrder, environment, stateErrors,
                    logFiles, cleanups, proxyConfigs, sitesEnabled, clones, scan,
                    naming, plan, failure, extraction, sanitizing >>

\* The setTimeout callback: server.close(), a warning and resolve(false).
OnTimeout ==
    /\ probe.timeout = "armed"
    /\ probe' = [probe EXCEPT !.timeout = "fired", !.closing = TRUE,
                              !.isPortFree = settle(@, "false"),
                              !.resolves = Append(@, "false")]
    /\ UNCHANGED << config, rows, deploymentQueue, runningDeployments, immediates,
                    tasks, enqueued, startOrder, environment, stateErrors,
                    logFiles, cleanups, proxyConfigs, sitesEnabled, clones, scan,
                    naming, plan, failure, extraction, sanitizing >>

\* The await of the for loop resumes with the verdict: return port, or port++.
LoopResumes ==
    /\ probe.loop = "awaiting"
    /\ probe.isPortFree # "pending"
    /\ probe' = [probe EXCEPT !.loop = IF probe.isPortFree = "true"
                                       THEN "returned" ELSE "nextPort"]
    /\ UNCHANGED << config, rows, deploymentQueue, runningDeployments, immediates,
                    tasks, enqueued, startOrder, environment, stateErrors,
                    logFiles, cleanups, proxyConfigs, sitesEnabled, clones, scan,
                    naming, plan, failure, extraction, sanitizing >>

ProbeNext == OnListening \/ OnError \/ OnClose \/ OnTimeout \/ LoopResumes

\* A probe of every port in ScanPorts, for every answer of listen.
ProbeInit ==
    /\ OrchestratorInit
    /\ maxConcurrent = MAX_CONCURRENT_DEPLOYMENTS
    /\ ~isProduction
    /\ scan = IdleScan
    /\ naming = IdleNaming
    /\ plan = IdlePlan
    /\ failure = IdleFailure
    /\ extraction = IdleExtraction
    /\ sanitizing = IdleSanitizing
    /\ \E port \in ScanPorts, answer \in ListenAnswers :
          probe = NewProbe(port, answer)

ProbeSpec == ProbeInit /\ [][ProbeNext]_vars

(* --------------------- the extraction on its own ----------------------- *)

\* What fs.mkdir(buildOutputPath, {recursive: true}) can do.
MkdirOutcomes == {"made", "rejects"}

\* What spawn('docker', dockerRunArgs) can do: the process starts, or it
\* cannot be started and the child emits 'error'.
SpawnOutcomes == {"started", "error"}

\* The exit code the 'close' event carries: 0, that of a failed copy script or
\* of docker run itself, or null for a process ended by a signal.
ExitCodes == {"0", "1", "125", "null"}

\* A close handler that rejects when the copy script did not print its sentinel.
closeOutcomeChecksSentinel(sentinel, code) ==
    IF sentinel THEN "resolved" ELSE "rejected"

\* The 'close' handler: with the sentinel in stdoutBuffer resolve(); without it
\* a console.warn and resolve() as well; code is only logged.
closeOutcome(sentinel, code) == "resolved"

\* extractBuildArtifacts(imageName, buildOutputPath, logFilePath) is called
\* where mkdir and spawn will do as given, and the container run, if it
\* starts, will print the sentinel or not and end with code.
NewExtraction(mkdir, spawn, sentinel, code) ==
    [ stage |-> "called", mkdir |-> mkdir, spawn |-> spawn, sentinel |-> sentinel,
      code |-> code, warned |-> FALSE, settled |-> "pending", settlements |-> 0 ]

\* The log stream is set up and await fs.mkdir(buildOutputPath): a rejection
\* leaves the async function, which rejects its promise.
MakeOutputDirectory ==
    /\ extraction.stage = "called"
    /\ extraction' =
           IF extraction.mkdir = "made"
           THEN [extraction EXCEPT !.stage = "spawning"]
           ELSE [extraction EXCEPT !.stage = "mkdirFailed",
                                   !.settled = settle(@, "rejected"),
                                   !.settlements = @ + 1]
    /\ UNCHANGED << config, rows, deploymentQueue, runningDeployments, immediates,
                    tasks, enqueued, startOrder, environment, stateErrors,
                    logFiles, cleanups, proxyConfigs, sitesEnabled, clones, scan,
                    naming, plan, failure, probe, sanitizing >>

\* spawn('docker', ['run', '--rm', '-v', ...]) and the registration of the
\* handlers; a process that cannot be started emits 'error', whose handler
\* logs and rejects.
SpawnDockerRun ==
    /\ extraction.stage = "spawning"
    /\ extraction' =
           IF extraction.spawn = "started"
           THEN [extraction EXCEPT !.stage = "running"]
           ELSE [extraction EXCEPT !.stage = "spawnFailed",
                                   !.settled = settle(@, "rejected"),
                                   !.settlements = @ + 1]
    /\ UNCHANGED << config, rows, deploymentQueue, runningDeployments, immediates,
                    tasks, enqueued, startOrder, environment, stateErrors,
                    logFiles, cleanups, proxyConfigs, sitesEnabled, clones, scan,
                    naming, plan, failure, probe, sanitizing >>

\* The 'close' event of the child, which also follows the 'error' of a process
\* that could not be started.
ProcessCloses ==
    /\ extraction.stage \in {"running", "spawnFailed"}
    /\ extraction' =
           [extraction EXCEPT
               !.stage = IF @ = "running" THEN "closed" ELSE "closedAfterError",
               !.warned = ~extraction.sentinel,
               !.settled = settle(@, closeOutcome(extraction.sentinel, extraction.code)),
               !.settlements = @ + 1]
    /\ UNCHANGED << config, rows, deploymentQueue, runningDeployments, immediates,
                    tasks, enqueued, startOrder, environment, stateErrors,
                    logFiles, cleanups, proxyConfigs, sitesEnabled, clones, scan,
                    naming, plan, failure, probe, sanitizing >>

\* The await of processDeployment returns: on to the clone cleanup that
\* precedes the supervisor step, or into the catch block.
ExtractionReturns ==
    /\ extraction.stage \in {"closed", "closedAfterError", "mkdirFailed"}
    /\ extraction' = [extraction EXCEPT
                         !.stage = IF extraction.settled = "resolved"
                                   THEN "cleanupClone" ELSE "markFailed"]
    /\ UNCHANGED << config, rows, deploymentQueue, runningDeployments, immediates,
                    tasks, enqueued, startOrder, environment, stateErrors,
                    logFiles, cleanups, proxyConfigs, sitesEnabled, clones, scan,
                    naming, plan, failure, probe, sanitizing >>

ExtractionNext ==
    MakeOutputDirectory \/ SpawnDockerRun \/ ProcessCloses \/ ExtractionReturns

\* A call of extractBuildArtifacts for every behaviour of mkdir, of spawn and
\* of the container run.
ExtractionInit ==
    /\ OrchestratorInit
    /\ maxConcurrent = MAX_CONCURRENT_DEPLOYMENTS
    /\ ~isProduction
    /\ scan = IdleScan
    /\ naming = IdleNaming
    /\ plan = IdlePlan
    /\ failure = IdleFailure
    /\ probe = IdleProbe
    /\ sanitizing = IdleSanitizing
    /\ \E mkdir \in MkdirOutcomes, spawn \in SpawnOutcomes, sentinel \in BOOLEAN,
          code \in ExitCodes :
            extraction = NewExtraction(mkdir, spawn, sentinel, code)

ExtractionSpec == ExtractionInit /\ [][ExtractionNext]_vars

(* ------------------------ the detached removals ------------------------ *)

\* The orchestrator together with the removals its catch block leaves running.
\* No action of Next reads what they change (the log file, the set of removals
\* still running), so Next alone is the orchestrator for everything else.
CleanupNext ==
    \/ Next
    \/ \E d \in DeploymentIds : RemoveWorkingDirectory(d)
    \/ \E d \in DeploymentIds : DetachedCloneCleanup(d)

CleanupSpec == ShippedInit /\ [][CleanupNext]_vars

(* -------------------- phases whose log sink fails --------------------- *)

\* A phase that sets up a log stream runs while its log directory cannot be
\* made or its log file cannot be opened.  (cloneRepository is not among them:
\* processDeployment passes it four arguments and its logFilePath parameter
\* receives the user id.)
PhaseWithFailedSink(t) ==
    \E sink \in LogSinks \ {"ok"} :
        \/ BuildProjectImageLogging(t, sink)
        \/ ExtractBuildArtifactsLogging(t, sink)
        \/ CleanUpCloneDirectoryLogging(t, sink)
        \/ WriteProxyConfigLogging(t, sink)

SinkNext ==
    \/ Next
    \/ \E t \in TaskIds : PhaseWithFailedSink(t)

\* The orchestrator with the ceiling the source sets, on a disk where log
\* directories and log files can fail.
SinkSpec == ShippedInit /\ [][SinkNext]_vars

\* The messages of the errors the database client throws.
DatabaseErrors == {"database update failed", "database query failed"}

\* A step of task t in which the database answers: no write and no query of
\* the step throws, the write of status failed included.
DatabaseAnswers(t) ==
    /\ stateErrors' = stateErrors
    /\ (tasks[t].pc # "markFailed" /\ tasks'[t].pc = "markFailed") =>
           tasks'[t].error \notin DatabaseErrors

\* A step of the call of processDeployment that task t stands for, on a disk
\* where log files can fail and with a database that answers.
AnsweredStep(t) == (TaskStep(t) \/ PhaseWithFailedSink(t)) /\ DatabaseAnswers(t)

AnsweredNext ==
    \/ \E d \in DeploymentIds : CreateDeployment(d)
    \/ \E d \in DeploymentIds : EnqueueDeployment(d)
    \/ DeploymentWorker
    \/ \E d \in DeploymentIds : AppListens(d)
    \/ \E t \in TaskIds : AnsweredStep(t)

\* The orchestrator with the ceiling the source sets, where every awaited
\* call returns (with a result or with an error, those of the log file
\* included), the database writes succeed and Node runs every scheduled
\* callback.
AnsweredSpec ==
    /\ ShippedInit
    /\ [][AnsweredNext]_vars
    /\ WF_vars(DeploymentWorker)
    /\ \A t \in 1..MaxEnqueues : WF_vars(AnsweredStep(t))

(* ------------------ the facade's own failure path ---------------------- *)

\* deployProject, step 3: mkdir of the working directory fails and the resolver
\* writes status failed (and nothing else) before it throws; the deployment is
\* never handed to the queue.
DeployProjectWorkspaceFailure(d) ==
    /\ rows[d].status = "pending"
    /\ \A t \in TaskIds : tasks[t].dep # d
    /\ rows' = [rows EXCEPT ![d].status = "failed"]
    /\ UNCHANGED << config, deploymentQueue, runningDeployments, immediates,
                    tasks, enqueued, startOrder, environment, stateErrors, files >>

FacadeNext ==
    \/ Next
    \/ \E d \in DeploymentIds : DeployProjectWorkspaceFailure(d)

\* The orchestrator together with the resolver's failure write.
FacadeSpec == Init /\ [][FacadeNext]_vars

(* ------------------------------- claims -------------------------------- *)

Created == { d \in DeploymentIds : rows[d].status # "absent" }

\* Task t is a call of processDeployment that has started and not yet settled.
InFlight(t) == tasks[t].pc \notin {"unused", "queued", "done"}

Deploying == { d \in DeploymentIds : rows[d].status = "deploying" }

\* The transitions of the status DAG, with the creation of the row.
StatusDag ==
    { <<"absent", "pending">>, <<"pending", "deploying">>,
      <<"deploying", "success">>, <<"deploying", "failed">> }

\* C1: the status of every row only ever changes along
\* pending -> deploying -> success or pending -> deploying -> failed.
C1_StatusFollowsDag ==
    [][ \A d \in DeploymentIds :
            rows'[d].status # rows[d].status =>
                <<rows[d].status, rows'[d].status>> \in StatusDag ]_vars

C3_StartedInEnqueueOrder ==
    \A i \in 1..Len(startOrder) : startOrder[i] = i

\* Two tasks waited in the queue together and both have been started.
C3_Witness ==
    /\ Len(startOrder) >= 2
    /\ \A t \in TaskIds : tasks[t].pc \in {"done", "unused"}

\* C4: every enqueued task is eventually started, given that every started
\* task eventually settles and every scheduled worker callback eventually runs.
C4_EveryTaskEventuallyStarted ==
    \A t \in 1..MaxEnqueues : (tasks[t].pc = "queued") ~> (tasks[t].pc # "queued")

\* A task waits in the queue while every slot is taken and no worker callback
\* is scheduled: the enqueue that found the ceiling reached.
C4_Witness ==
    /\ Len(deploymentQueue) > 0
    /\ runningDeployments = maxConcurrent
    /\ immediates = 0

Active == { d \in DeploymentIds : rows[d].status \in {"deploying", "success"} }

\* C7: any two distinct rows whose status is deploying or success have
\* different deploymentUrl values (stated here for rows whose URL was written;
\* the rows still holding the '' they were created with are left out).
C7_ActiveUrlsDiffer ==
    \A d, e \in Active :
        (d # e /\ rows[d].deploymentUrl # EmptyUrl) =>
            rows[d].deploymentUrl # rows[e].deploymentUrl

\* C8: errorMessage is non-empty if and only if status is failed.
C8_ErrorMessageIffFailed ==
    \A d \in Created : (rows[d].errorMessage # "") <=> (rows[d].status = "failed")

\* C9: a run of a task that was enqueued when its row was already success or
\* failed changes no field of that row.
C9_RerunLeavesRowAlone ==
    [][ \A t \in TaskIds :
            (tasks[t].rerun /\ InFlight(t) /\ tasks'[t] # tasks[t]) =>
                rows'[tasks[t].dep] = rows[tasks[t].dep] ]_vars

\* C10: logFilePath is written no later than the write that moves the row out
\* of pending, and once written it never changes.
C10_LogFilePathWrittenOnceBeforeLeavingPending ==
    [][ \A d \in DeploymentIds :
            /\ rows'[d].status \notin {"absent", "pending"} =>
                   rows'[d].logFilePath = LogFilePathOf(d)
            /\ rows[d].logFilePath # 0 =>
                   rows'[d].logFilePath = rows[d].logFilePath ]_vars

\* The step is the catch block of task t issuing its write of status failed,
\* on a row for which no such write was ever lost (so that this one goes through).
FailureWritten(t) ==
    /\ tasks[t].pc = "markFailed"
    /\ tasks'[t].pc # "markFailed"
    /\ tasks[t].dep \notin stateErrors'

\* C11: the write of status failed carries the error message, dockerfileUsed as
\* known at that point, and internalPort and deploymentUrl whenever they had
\* been assigned before the failure; the removal of the working directory and
\* (when a clone was made) of the clone directory are started with it.
C11_FailureWriteCarriesWhatIsKnown ==
    [][ \A t \in TaskIds :
            FailureWritten(t) =>
                LET d == tasks[t].dep IN
                /\ rows'[d].status = "failed"
                /\ rows'[d].errorMessage = tasks[t].error
                /\ rows'[d].dockerfileUsed = tasks[t].dockerfileUsedResult
                /\ tasks[t].internalPort # 0 =>
                       rows'[d].internalPort = tasks[t].internalPort
                /\ tasks[t].finalDeploymentUrl # EmptyUrl =>
                       rows'[d].deploymentUrl = tasks[t].finalDeploymentUrl
                /\ "workingDir" \in cleanups'[d]
                /\ tasks[t].clonedRepoPath => "cloneDir" \in cleanups'[d] ]_vars

\* The orchestrator is done with deployment d: its row is terminal, no call of
\* processDeployment for it is queued or running, and every removal it started
\* has finished.
Finished(d) ==
    /\ rows[d].status \in {"success", "failed"}
    /\ \A t \in TaskIds : tasks[t].dep = d => tasks[t].pc = "done"
    /\ cleanups[d] = {}

\* C12: once the orchestrator is done with a deployment whose build ran (so
\* that its log file was written), success or failed, the log file exists.
C12_LogFileOutlivesProcessing ==
    \A d \in DeploymentIds :
        (Finished(d) /\ rows[d].dockerfileUsed \in BuildResults) => d \in logFiles

\* C13: a call of enqueueDeployment appends the task at the tail of the queue
\* and starts no task: the counter, the start order and the set of running
\* calls are as before, and at most a worker callback is scheduled.
C13_EnqueueOnlyAppends ==
    [][ enqueued' = enqueued + 1 =>
            /\ deploymentQueue' = Append(deploymentQueue, enqueued')
            /\ runningDeployments' = runningDeployments
            /\ startOrder' = startOrder
            /\ immediates' \in {immediates, immediates + 1}
            /\ \A t \in TaskIds :
                  tasks'[t].pc \notin {"unused", "queued", "done"} <=> InFlight(t) ]_vars

\* A task was enqueued behind another one that was still waiting.
C13_Witness == Len(deploymentQueue) = 2

\* The ports of the scanned range on which a probe gets to listen.
FreeInRange == (scan.startPort..scan.endPort) \ scan.busy

\* C14: the port findFreePort returns is the lowest-numbered free port of
\* [startPort, endPort], and so lies within the range.
C14_ReturnsLowestFreePort ==
    scan.result = "returned" =>
        /\ scan.returned \in scan.startPort..scan.endPort
        /\ scan.returned \in FreeInRange
        /\ \A q \in FreeInRange : scan.returned <= q

\* The only free port of a range of several ports is its last one, and it is
\* the port returned.
C14_Witness ==
    /\ scan.result = "returned"
    /\ scan.startPort < scan.endPort
    /\ FreeInRange = {scan.endPort}
    /\ scan.returned = scan.endPort

\* C15: findFreePort fails with the no-free-port error exactly when no port of
\* the range is free, and for an empty range it fails without a probe.
C15_FailsExactlyWhenNoneFree ==
    /\ scan.result = "NoFreePort" => FreeInRange = {}
    /\ scan.result = "returned" => FreeInRange # {}
    /\ (FreeInRange = {} /\ scan.result # "scanning") => scan.result = "NoFreePort"
    /\ scan.startPort > scan.endPort => scan.probes = 0

\* Every port of a range of MaxScan ports was probed and found busy.
C15_Witness ==
    /\ scan.result = "NoFreePort"
    /\ scan.probes = MaxScan

\* C16: a failed supervisor start marks the deployment failed only after the
\* start was tried three times (the first attempt and two retries).
C16_StartIsRetriedTwice ==
    [][ \A t \in TaskIds :
            ( /\ tasks[t].pc = "startApp"
              /\ tasks'[t].pc = "markFailed"
              /\ tasks'[t].startOutcome \notin {"none", "online"} ) =>
                tasks'[t].starts >= 3 ]_vars

\* A failure message that names a process status.
NamesStatus(message) ==
    message \in { NotOnlineMessage(status) : status \in {"unknown", "errored"} }

\* C17 as stated: a port is returned only for a process reported online, and
\* for every other answer of the start call (the error included) the step
\* fails with a failure that names the last known status.
C17_OnlyOnlineAcceptedStatusNamed ==
    \A t \in TaskIds :
        /\ tasks[t].internalPort # 0 => tasks[t].startOutcome = "online"
        /\ tasks[t].startOutcome \notin {"none", "online"} =>
              /\ tasks[t].pc = "markFailed"
              /\ NamesStatus(tasks[t].error)

\* C17 as amended: a port is returned only for a process reported online; an
\* answer with a process list fails naming the last known status (unknown for
\* an empty list or a missing status), and an error of the start call fails
\* with that error.
C17_OnlyOnlineAccepted ==
    \A t \in TaskIds :
        /\ tasks[t].internalPort # 0 => tasks[t].startOutcome = "online"
        /\ tasks[t].startOutcome \notin {"none", "online"} =>
              /\ tasks[t].pc = "markFailed"
              /\ tasks[t].startOutcome # "error" =>
                    tasks[t].error = NotOnlineMessage(appStatus(tasks[t].startOutcome))
              /\ tasks[t].startOutcome = "error" => ~NamesStatus(tasks[t].error)

\* The start call answered with an error and the step has failed with it.
C17_Witness ==
    \E t \in TaskIds :
        /\ tasks[t].startOutcome = "error"
        /\ tasks[t].pc = "markFailed"
        /\ tasks[t].error = StartRejection("error")

C19_ProxyExactlyInProduction ==
    /\ ~isProduction =>
          /\ proxyConfigs = {}
          /\ \A t \in TaskIds : tasks[t].pc # "nginx"
          /\ \A d \in DeploymentIds :
                rows[d].status = "success" =>
                    rows[d].deploymentUrl = LocalhostUrl(rows[d].internalPort)
    /\ isProduction =>
          /\ \A c \in proxyConfigs : c.useHttps
          /\ \A d \in DeploymentIds :
                rows[d].status = "success" =>
                    /\ ProxyConfig(d, TRUE) \in proxyConfigs
                    /\ rows[d].deploymentUrl.kind \in {"generated", "fallback"}

\* Every deployment has succeeded in development mode.
C19_Witness ==
    /\ ~isProduction
    /\ \A d \in DeploymentIds :
          rows[d].status = "success" /\ rows[d].deploymentUrl.kind = "localhost"

\* C20: the minting loop takes a candidate only if no active row holds it and
\* fewer than five candidates collided before it; the fallback
\* https://deploy-<id>.<platform> is tried after exactly five collisions and is
\* taken if no active row holds it; if one does, the run fails and writes no
\* proxy configuration.
C20_UrlMinting ==
    [][ \A t \in TaskIds :
            LET d == tasks[t].dep
                url == tasks'[t].finalDeploymentUrl
            IN
            /\ tasks[t].pc = "mint" => tasks'[t].attempt <= MAX_URL_GENERATION_ATTEMPTS
            /\ (tasks[t].pc = "mint" /\ tasks'[t].pc = "storeUrl") =>
                  /\ tasks[t].attempt < MAX_URL_GENERATION_ATTEMPTS
                  /\ url.kind = "generated"
                  /\ ~ExistingDeployment(url)
            /\ (tasks[t].pc = "mint" /\ tasks'[t].pc = "fallbackCheck") =>
                  /\ tasks'[t].attempt = MAX_URL_GENERATION_ATTEMPTS
                  /\ url = FallbackUrl(d)
            /\ (tasks[t].pc = "fallbackCheck" /\ tasks'[t].pc = "storeUrl") =>
                  /\ url = FallbackUrl(d)
                  /\ ~ExistingDeployment(url)
            /\ ( /\ tasks[t].pc = "fallbackCheck"
                 /\ tasks'[t] # tasks[t]
                 /\ ExistingDeployment(FallbackUrl(d)) ) =>
                  /\ tasks'[t].pc = "markFailed"
                  /\ proxyConfigs' = proxyConfigs
            /\ (tasks[t].pc = "markFailed" /\ tasks'[t].pc = "done") =>
                  proxyConfigs' = proxyConfigs ]_vars

\* A run took the fallback URL after five collisions and stored it, and a later
\* run for the same id found its five candidates and the fallback taken.
C20_Witness ==
    \E t \in TaskIds :
        /\ tasks[t].pc = "markFailed"
        /\ tasks[t].attempt = MAX_URL_GENERATION_ATTEMPTS
        /\ tasks[t].error =
              "Failed to generate a unique deployment URL even with fallback pattern."
        /\ rows[tasks[t].dep].deploymentUrl = FallbackUrl(tasks[t].dep)

\* C21: when the sanitized project name is empty, the URL the minting block
\* ends with is the fallback https://deploy-<id>.<platform>, not a hostname
\* built from the empty name.
C21_EmptyNameGetsFallback ==
    (/\ naming.stage = "minted"
     /\ sanitizeForSubdomain(naming.name, SUBDOMAIN_MAX_LENGTH) = << >>)
        => naming.url = FallbackUrl(naming.dep)

\* C22: a repository with a Dockerfile at its root is built with that
\* Dockerfile, and the source recorded is user_classic_assumed exactly when the
\* repository is detected as a Next.js project whose configuration does not
\* declare standalone output, and user in every other case.
C22_UserDockerfileSource ==
    (plan.stage # "detect" /\ plan.repo.dockerfile) =>
        /\ plan.stage \in {"selected", "building"}
        /\ plan.dockerfilePathToUse = "userDockerfilePath"
        /\ plan.dockerfileSource =
               IF isNextProject(plan.repo) /\ ~DeclaresStandalone(plan.repo.configContent)
               THEN "user_classic_assumed" ELSE "user"

\* C23: without a Dockerfile, a repository detected as a Next.js project gets
\* default_standalone exactly when a next.config file exists and declares
\* standalone output, and default_classic in every other case; when the default
\* Dockerfile selected is missing on disk the call fails with a configuration
\* error and no docker build is started.
C23_DefaultDockerfileSource ==
    (/\ plan.stage # "detect"
     /\ ~plan.repo.dockerfile
     /\ isNextProject(plan.repo)) =>
        LET standalone == DeclaresStandalone(plan.repo.configContent)
            present == IF standalone THEN plan.repo.standaloneDefault
                       ELSE plan.repo.classicDefault
        IN  IF present
            THEN /\ plan.stage \in {"selected", "building"}
                 /\ plan.dockerfileSource =
                        IF standalone THEN "default_standalone" ELSE "default_classic"
            ELSE /\ plan.stage = "configError"
                 /\ ~plan.spawned

\* Task t takes a step: a step of processDeployment changes its locals.
Steps(t) == tasks'[t] # tasks[t]

\* The supervisor and the proxy are as they were.
ServingUntouched ==
    /\ pm2' = pm2
    /\ proxyConfigs' = proxyConfigs
    /\ sitesEnabled' = sitesEnabled

\* Task t leaves the catch block with the error message m.
FailsWith(t, m) ==
    /\ tasks[t].pc = "markFailed"
    /\ tasks[t].error = m
    /\ tasks'[t].pc # "markFailed"

\* C24: a repository with neither a Dockerfile nor a Next.js signal makes the
\* deployment end in failed with the "No Dockerfile" message, and in that run
\* no docker build is started, no port is allocated, no supervisor process is
\* registered and no proxy configuration is written.
C24_NoDockerfileFailsBeforeBuild ==
    [][ \A t \in TaskIds :
          /\ (Steps(t) /\ tasks'[t].error = NoDockerfileMessage) =>
                /\ tasks[t].pc = "build"
                /\ tasks'[t].pc = "markFailed"
                /\ tasks'[t].imageBuilds = 0
                /\ tasks'[t].internalPort = 0
                /\ tasks'[t].starts = 0
                /\ tasks'[t].proxyCommands = << >>
                /\ ServingUntouched
          /\ FailsWith(t, NoDockerfileMessage) =>
                /\ ServingUntouched
                /\ FailureWritten(t) =>
                      /\ rows'[tasks[t].dep].status = "failed"
                      /\ rows'[tasks[t].dep].errorMessage = NoDockerfileMessage
                      /\ rows'[tasks[t].dep].internalPort = rows[tasks[t].dep].internalPort
      ]_vars

\* A deployment has ended in failed with the "No Dockerfile" message.
C24_Witness ==
    \E d \in DeploymentIds :
        /\ rows[d].status = "failed"
        /\ rows[d].errorMessage = NoDockerfileMessage
        /\ ~Registered(d)
        /\ proxyConfigs = {}

NoFreePortsMessage == "No free ports found in range"

\* C25: with every port of the range busy at the supervisor step the deployment
\* ends in failed with the "No free ports" message, and in that run neither a
\* delete nor a start is sent to the supervisor and no proxy configuration is
\* written.
C25_NoFreePortFailsBeforeSupervisor ==
    [][ \A t \in TaskIds :
          /\ (Steps(t) /\ tasks[t].pc = "startApp" /\ PortRange \ BusyPorts = {}) =>
                /\ tasks'[t].pc = "markFailed"
                /\ tasks'[t].error = NoFreePortsMessage
                /\ tasks'[t].starts = 0
                /\ tasks'[t].internalPort = 0
                /\ tasks'[t].proxyCommands = << >>
                /\ ServingUntouched
          /\ FailsWith(t, NoFreePortsMessage) =>
                /\ tasks[t].starts = 0
                /\ tasks[t].proxyCommands = << >>
                /\ ServingUntouched
                /\ FailureWritten(t) =>
                      /\ rows'[tasks[t].dep].status = "failed"
                      /\ rows'[tasks[t].dep].errorMessage = NoFreePortsMessage
      ]_vars

\* A deployment has ended in failed with the "No free ports" message while the
\* application of another one holds the only port of the range.
C25_Witness ==
    \E d \in DeploymentIds :
        /\ rows[d].status = "failed"
        /\ rows[d].errorMessage = NoFreePortsMessage
        /\ ~Registered(d)
        /\ \E e \in listening : e # d

ProxyOrder == << "tee", "ln", "reload" >>

\* The privileged commands a call of the proxy configurator has issued are the
\* first ones of write, symlink, reload, each after the success of the one
\* before.
InProxyOrder(commands) ==
    /\ Len(commands) <= Len(ProxyOrder)
    /\ \A i \in 1..Len(commands) : commands[i].command = ProxyOrder[i]
    /\ \A i \in 1..(Len(commands) - 1) : commands[i].exitedSuccessfully

Reloads(commands) ==
    Cardinality({ i \in 1..Len(commands) : commands[i].command = "reload" })

\* C26: the proxy configurator issues write, symlink and reload in that order,
\* each only after the one before exited successfully; a production deployment
\* that succeeds has issued the reload exactly once, and after a failed write
\* or a failed symlink no reload is issued.
C26_ProxyCommandsInOrder ==
    /\ [](\A t \in TaskIds :
            LET commands == tasks[t].proxyCommands IN
            /\ InProxyOrder(commands)
            /\ (\E i \in 1..Len(commands) :
                    /\ commands[i].command \in {"tee", "ln"}
                    /\ ~commands[i].exitedSuccessfully)
                  => Reloads(commands) = 0)
    /\ [][ \A t \in TaskIds :
             (/\ isProduction
              /\ tasks[t].pc = "markSuccess"
              /\ rows'[tasks[t].dep].status = "success"
              /\ tasks'[t].pc = "done") =>
                 /\ Reloads(tasks[t].proxyCommands) = 1
                 /\ \A i \in 1..Len(ProxyOrder) :
                       tasks[t].proxyCommands[i] = ProxyCommand(ProxyOrder[i], TRUE)
         ]_vars

\* One production deployment succeeded after its three commands, and the
\* symlink of another one failed after its write: no reload was issued for it.
C26_Witness ==
    /\ isProduction
    /\ \E d \in DeploymentIds : rows[d].status = "success" /\ d \in sitesEnabled
    /\ \E t \in TaskIds :
          /\ tasks[t].pc = "markFailed"
          /\ tasks[t].proxyCommands =
                 << ProxyCommand("tee", TRUE), ProxyCommand("ln", FALSE) >>

NginxFailedMessage == "Failed to configure Nginx"

\* C27: when the proxy configuration fails, the deployment ends in failed and
\* the failure path sends nothing to the supervisor: the process deploy-<id>
\* this run registered is neither deleted nor stopped.
C27_ProxyFailureKeepsProcess ==
    /\ [](\A t \in TaskIds :
            (tasks[t].pc = "markFailed" /\ tasks[t].error = NginxFailedMessage) =>
                /\ tasks[t].starts = 1
                /\ tasks[t].startOutcome = "online")
    /\ [][ \A t \in TaskIds :
             /\ (Steps(t) /\ tasks[t].pc \in {"nginx", "nginxLink", "nginxReload"}) =>
                   /\ pm2' = pm2
                   /\ listening' = listening
             /\ FailsWith(t, NginxFailedMessage) =>
                   /\ pm2' = pm2
                   /\ listening' = listening
                   /\ FailureWritten(t) => rows'[tasks[t].dep].status = "failed"
         ]_vars

\* A deployment has ended in failed on its proxy configuration and its process
\* is registered with the port the run was given.
C27_Witness ==
    \E d \in DeploymentIds :
        /\ rows[d].status = "failed"
        /\ rows[d].errorMessage = NginxFailedMessage
        /\ Registered(d)
        /\ PortOf(d) = rows[d].internalPort

\* C28: a failure to create the log directory or to open the log file never
\* changes the outcome of the deployment: every call of processDeployment goes
\* on as it would with a working log sink, none is lost.
C28_LogSinkFailureChangesNothing ==
    \A t \in TaskIds : tasks[t].pc # "lost"

\* C29: whichever step raised the failure that makes a deployment end in
\* failed (workspace preparation, clone, plan, build, extract, port allocation,
\* supervisor start, URL minting, proxy configuration), the log file has
\* received a record of that error in a section closed by a Failed marker.
C29_EveryFailureIsLogged ==
    \A t \in TaskIds :
        (tasks[t].pc = "markFailed" /\ tasks[t].error \notin DatabaseErrors)
            => tasks[t].errorLogged

\* C30: the errorMessage stored for a failure has a bounded length and is
\* end-trimmed, however long the captured output of the failed docker build.
C30_StoredMessageIsBounded ==
    failure.stage = "stored" =>
        /\ Len(failure.errorMessage) <= MaxStoredLength
        /\ failure.errorMessage # << >> =>
               failure.errorMessage[Len(failure.errorMessage)] # "\n"

\* C31: the build type handed to the supervisor is classic exactly when the
\* Dockerfile source is default_classic or user_classic_assumed, and standalone
\* for every other source: for every source buildProjectImage resolves with in
\* a run, and for every value of DockerfileSource, unknown included.
C31_BuildTypeFromDockerfileSource ==
    /\ plan.stage = "starting" =>
           /\ plan.buildType \in {"classic", "standalone"}
           /\ plan.buildType = "classic" <=>
                  plan.dockerfileSource \in {"default_classic", "user_classic_assumed"}
    /\ \A source \in DockerfileSources :
           buildType(source) =
               IF source \in {"default_classic", "user_classic_assumed"}
               THEN "classic" ELSE "standalone"

\* A run in which a user's Dockerfile was taken for a classic build.
C31_Witness ==
    /\ plan.stage = "starting"
    /\ plan.dockerfileSource = "user_classic_assumed"
    /\ plan.buildType = "classic"

\* C32: once the orchestrator is done with a deployment (terminal row, no call
\* queued or running, every removal finished), the directory its repository was
\* cloned into does not hold a clone any more.
C32_CloneDirectoryRemoved ==
    \A d \in DeploymentIds : Finished(d) => cloneDir(d) \notin clones

\* The container process of the extraction was started and has closed.
RanAndClosed ==
    /\ extraction.stage \in {"closed", "cleanupClone"}
    /\ extraction.spawn = "started"

C34_OneVerdictPerProbe ==
    /\ [](/\ probe.isPortFree = "true" =>
                 /\ probe.bind = "listening"
                 /\ probe.timeout = "cleared"
          /\ probe.bind = "error" => probe.isPortFree = "false"
          /\ probe.timeout = "fired" => probe.isPortFree = "false"
          /\ probe.timeout # "armed" => probe.isPortFree # "pending"
          /\ probe.loop = "returned" => probe.isPortFree = "true"
          /\ probe.loop = "nextPort" => probe.isPortFree = "false")
    /\ [][probe.isPortFree # "pending" => probe'.isPortFree = probe.isPortFree]_vars

\* The timeout fired between 'listening' and 'close': the verdict was busy and
\* the resolve(true) of the close callback came after it.
C34_Witness ==
    /\ probe.bind = "listening"
    /\ probe.resolves = << "false", "true" >>
    /\ probe.isPortFree = "false"
    /\ probe.loop = "nextPort"

\* The number of times task t occurs in a sequence of tasks.
Occurrences(seq, t) == Cardinality({ i \in 1..Len(seq) : seq[i] = t })

\* C35: every task handed to enqueueDeployment is either waiting in the queue,
\* once, and not started, or has been started, once, and is not in the queue;
\* nothing else is in the queue or among the started tasks.
C35_EachTaskStartedOnce ==
    /\ \A t \in TaskIds :
          IF t <= enqueued
          THEN \/ /\ tasks[t].pc = "queued"
                  /\ Occurrences(deploymentQueue, t) = 1
                  /\ Occurrences(startOrder, t) = 0
               \/ /\ tasks[t].pc # "queued"
                  /\ Occurrences(deploymentQueue, t) = 0
                  /\ Occurrences(startOrder, t) = 1
          ELSE /\ tasks[t].pc = "unused"
               /\ Occurrences(deploymentQueue, t) = 0
               /\ Occurrences(startOrder, t) = 0
    /\ Len(deploymentQueue) + Len(startOrder) = enqueued

\* Two worker callbacks are pending at the same time, with one task started
\* and another waiting.
C35_Witness ==
    /\ immediates >= 2
    /\ Len(startOrder) >= 1
    /\ Len(deploymentQueue) >= 1

\* C36: the counter is the number of calls of processDeployment that have been
\* started and have not settled, and lies between 0 and the ceiling; and the
\* step in which a failing call settles starts the task at the head of the
\* queue, if there is one.
C36_CounterCountsRunningTasks ==
    /\ [](/\ runningDeployments = Cardinality({ t \in TaskIds : InFlight(t) })
          /\ runningDeployments \in 0..maxConcurrent)
    /\ [][ \A t \in TaskIds :
              (tasks[t].pc = "markFailed" /\ tasks'[t].pc = "done") =>
                  /\ runningDeployments' <= runningDeployments
                  /\ deploymentQueue # << >> =>
                         /\ tasks'[Head(deploymentQueue)].pc = "markDeploying"
                         /\ runningDeployments' = runningDeployments ]_vars

\* A call has failed and the task that was queued behind it is running.
C36_Witness ==
    \E t, u \in TaskIds :
        /\ t < u
        /\ tasks[t].pc = "done"
        /\ rows[tasks[t].dep].status = "failed"
        /\ tasks[u].dep # tasks[t].dep
        /\ InFlight(u)
        /\ runningDeployments = maxConcurrent
        /\ maxConcurrent = MAX_CONCURRENT_DEPLOYMENTS

\* C37: every deployment whose row says deploying gets a row that says
\* success or failed, when every awaited call returns, the database writes
\* succeed and every scheduled callback runs.
C37_DeployingReachesTerminal ==
    \A d \in DeploymentIds :
        (rows[d].status = "deploying") ~> (rows[d].status \in {"success", "failed"})

\* C38: two deployments whose rows say success and whose processes are in the
\* supervisor's list have different internal ports.
C38_SuccessPortsDiffer ==
    \A d, e \in DeploymentIds :
        ( /\ d # e
          /\ rows[d].status = "success" /\ rows[e].status = "success"
          /\ Registered(d) /\ Registered(e) ) =>
            rows[d].internalPort # rows[e].internalPort

\* The characters of [a-z0-9-] among those of the model.
SubdomainChars == {"a", "b", "-"}

\* The result is made of [a-z0-9-], is at most maxLength long, has no two
\* hyphens in a row and does not begin with a hyphen.
WellFormedUpToItsEnd(result, maxLength) ==
    /\ \A i \in 1..Len(result) : result[i] \in SubdomainChars
    /\ Len(result) <= maxLength
    /\ \A i \in 1..(Len(result) - 1) : ~(result[i] = "-" /\ result[i + 1] = "-")
    /\ result # << >> => result[1] # "-"

\* C39 as stated: the result is made of [a-z0-9-], is at most maxLength long,
\* has no two hyphens in a row and neither begins nor ends with a hyphen.
C39_SanitizedIsHostnameLabel ==
    sanitizing.stage = "returned" =>
        /\ WellFormedUpToItsEnd(sanitizing.result, sanitizing.maxLength)
        /\ sanitizing.result # << >> =>
               sanitizing.result[Len(sanitizing.result)] # "-"

\* C39: the result is made of [a-z0-9-], is at most maxLength long, has no two
\* hyphens in a row and does not begin with a hyphen; it ends with a hyphen
\* only when the truncation cut it there, the result then being maxLength long.
C39_SanitizedUpToTruncation ==
    sanitizing.stage = "returned" =>
        /\ WellFormedUpToItsEnd(sanitizing.result, sanitizing.maxLength)
        /\ ( /\ sanitizing.result # << >>
             /\ sanitizing.result[Len(sanitizing.result)] = "-" ) =>
               Len(sanitizing.result) = sanitizing.maxLength

\* A name with a hyphen, a space and a special character around its letters
\* came back as the letters alone.
C39_Witness ==
    /\ sanitizing.stage = "returned"
    /\ sanitizing.str = << "-", "B", "!" >>
    /\ sanitizing.maxLength = SUBDOMAIN_MAX_LENGTH
    /\ sanitizing.result = << "b" >>

\* The log file of deployment d exists, and with it the working directory of
\* the deployment, in which it lies.
WorkingDirectoryHoldsLog(d) == d \in logFiles

\* C40: when the clone-directory cleanup of a failed deployment finishes after
\* the removal of the working directory has finished and left nothing of it,
\* the working directory is still not there.
C40_WorkingDirectoryStaysRemoved ==
    [][ \A d \in DeploymentIds :
            ( /\ rows[d].status = "failed"
              /\ "cloneDir" \in cleanups[d]
              /\ cleanups'[d] = {}
              /\ ~WorkingDirectoryHoldsLog(d) ) =>
                ~WorkingDirectoryHoldsLog(d)' ]_vars

====
